---- MODULE Spec2Model ----
(***************************************************************************)
(* A model of package xr (gregoryv/xr): Picker.Pick binds the values of a  *)
(* http.Request into the fields of a destination struct, first by a        *)
(* content-type driven body decoder, then field by field from the source   *)
(* tags path, query, header and form.                                      *)
(*                                                                         *)
(* Strings the program takes apart (field names, raw values, tag literals) *)
(* are sequences of one-character strings; strings it only compares        *)
(* (tag names, type names, content types, methods) are TLA+ strings.       *)
(***************************************************************************)
EXTENDS Integers, Sequences, FiniteSets, TLC

VARIABLES
    registry,   \* Picker.registry: content type -> decoder factory
    setters,    \* Picker.setters: type name -> setfn
    pc,         \* where the program is: idle, body, fields, done, failed, fatal
    dst,        \* the destination handed to Pick, nil before the call
    req,        \* the request handed to Pick, nil before the call
    val,        \* the values of the destination's fields
    val0,       \* the values of the fields when Pick was called
    val1,       \* the values of the fields when the field loop began
    i,          \* the loop variable of Pick's field loop (Go: 0-based)
    result,     \* what Pick returned: Nil or a PickError
    panicked,   \* the value of the panic that ended the call, Nil if none
    log         \* every call Pick made to a collaborator, in order

vars == <<registry, setters, pc, dst, req, val, val0, val1, i, result, panicked, log>>

Nil == [nil |-> TRUE]

\* ------------------------------------------------------------------------
\* Bounds of the model.

\* The number of fields of a destination struct.
NumFields == 2

\* ------------------------------------------------------------------------
\* Strings.

LowerLetters == <<"a","b","c","d","e","f","g","h","i","j","k","l","m",
                  "n","o","p","q","r","s","t","u","v","w","x","y","z">>
UpperLetters == <<"A","B","C","D","E","F","G","H","I","J","K","L","M",
                  "N","O","P","Q","R","S","T","U","V","W","X","Y","Z">>

Range(s) == {s[k] : k \in DOMAIN s}

\* bytes.ToUpper on one byte: an ASCII lower-case letter becomes its
\* upper-case letter, every other byte stays.
ToUpperByte(c) ==
    IF \E k \in DOMAIN LowerLetters : LowerLetters[k] = c
    THEN UpperLetters[CHOOSE k \in DOMAIN LowerLetters : LowerLetters[k] = c]
    ELSE c

\* capitalizeFirstLetter(s): b[0] = ToUpper(b[0]). Indexing b[0] of an empty
\* name cannot happen: Go has no field with an empty name.
capitalizeFirstLetter(s) == <<ToUpperByte(s[1])>> \o Tail(s)

\* Go exports an identifier whose first character is an upper-case letter;
\* reflect gives every other field a non-empty PkgPath.
IsExported(name) == name[1] \in Range(UpperLetters)

\* ------------------------------------------------------------------------
\* Go types of the destination's fields, and errors.

\* reflect.Type.Kind() of the field types the model draws from. Color is
\* the test suite's "type Color int"; thing is its "type thing struct{...}".
Kind(typ) ==
    CASE typ = "bool"     -> "bool"
      [] typ = "int"      -> "int"
      [] typ = "int8"     -> "int8"
      [] typ = "int16"    -> "int16"
      [] typ = "int32"    -> "int32"
      [] typ = "int64"    -> "int64"
      [] typ = "uint"     -> "uint"
      [] typ = "uint8"    -> "uint8"
      [] typ = "uint16"   -> "uint16"
      [] typ = "uint32"   -> "uint32"
      [] typ = "uint64"   -> "uint64"
      [] typ = "float32"  -> "float32"
      [] typ = "float64"  -> "float64"
      [] typ = "complex64"  -> "complex64"
      [] typ = "complex128" -> "complex128"
      [] typ = "[]string" -> "slice"
      [] typ = "map[string]string" -> "map"
      [] typ = "*int"     -> "ptr"
      [] typ = "string"   -> "string"
      [] typ = "xr.Color" -> "int"
      [] typ = "xr.thing" -> "struct"

\* An error value: what failed and, for strconv's errors, on which input.
Err(what) == [error |-> what]

\* A (value, error) pair as strconv's parsers return it.
Ok(v)     == [err |-> Nil, value |-> v]
Fail(e)   == [err |-> e, value |-> 0]

\* ------------------------------------------------------------------------
\* strconv.

Digits == <<"0","1","2","3","4","5","6","7","8","9">>

IsDigit(c) == c \in Range(Digits)

DigitValue(c) == (CHOOSE k \in DOMAIN Digits : Digits[k] = c) - 1

RECURSIVE DecimalValue(_)
\* The number a sequence of decimal digits denotes. The raw values and tag
\* literals of the model have at most nine digits, within TLC's integers.
DecimalValue(ds) ==
    IF ds = <<>> THEN 0
    ELSE 10 * DecimalValue(SubSeq(ds, 1, Len(ds) - 1)) + DigitValue(ds[Len(ds)])

RECURSIVE Pow2(_)
Pow2(n) == IF n = 0 THEN 1 ELSE 2 * Pow2(n - 1)

\* [sign] digits, the syntax strconv.ParseInt accepts in base 10.
IsSignedDecimal(s) ==
    LET body == IF s # <<>> /\ s[1] \in {"+", "-"} THEN Tail(s) ELSE s
    IN  body # <<>> /\ \A k \in DOMAIN body : IsDigit(body[k])

SignedDecimalValue(s) ==
    IF s[1] = "-" THEN 0 - DecimalValue(Tail(s))
    ELSE IF s[1] = "+" THEN DecimalValue(Tail(s))
    ELSE DecimalValue(s)

RECURSIVE Canon(_)
\* A sequence of digits without its leading zeros.
Canon(ds) == IF Len(ds) > 1 /\ ds[1] = "0" THEN Canon(Tail(ds)) ELSE ds

\* a < b for two numbers given by their digits without leading zeros.
DigitsLess(a, b) ==
    \/ Len(a) < Len(b)
    \/ /\ Len(a) = Len(b)
       /\ \E k \in DOMAIN a :
            /\ DigitValue(a[k]) < DigitValue(b[k])
            /\ \A j \in 1 .. (k - 1) : a[j] = b[j]

\* 2^(bitSize-1) - 1, the largest value of a signed integer of a size.
MaxInt(bitSize) ==
    CASE bitSize = 8  -> <<"1","2","7">>
      [] bitSize = 16 -> <<"3","2","7","6","7">>
      [] bitSize = 32 -> <<"2","1","4","7","4","8","3","6","4","7">>
      [] bitSize = 64 -> <<"9","2","2","3","3","7","2","0","3","6","8","5","4","7","7","5","8","0","7">>

\* 2^(bitSize-1), the magnitude of the smallest value of a signed integer.
MinIntMagnitude(bitSize) ==
    CASE bitSize = 8  -> <<"1","2","8">>
      [] bitSize = 16 -> <<"3","2","7","6","8">>
      [] bitSize = 32 -> <<"2","1","4","7","4","8","3","6","4","8">>
      [] bitSize = 64 -> <<"9","2","2","3","3","7","2","0","3","6","8","5","4","7","7","5","8","0","8">>

\* 2^bitSize - 1, the largest value of an unsigned integer of a size.
MaxUint(bitSize) ==
    CASE bitSize = 8  -> <<"2","5","5">>
      [] bitSize = 16 -> <<"6","5","5","3","5">>
      [] bitSize = 32 -> <<"4","2","9","4","9","6","7","2","9","5">>
      [] bitSize = 64 -> <<"1","8","4","4","6","7","4","4","0","7","3","7","0","9","5","5","1","6","1","5">>

\* The integer of a sign and digits: a number of TLC where it has at most
\* nine digits, and the sign and the digits themselves where it has more.
Number(neg, mag) ==
    IF Len(mag) <= 9
    THEN IF neg THEN 0 - DecimalValue(mag) ELSE DecimalValue(mag)
    ELSE [neg |-> neg, digits |-> mag]

\* A ParseInt that checks the syntax alone.
ParseIntUnchecked(s, bitSize) ==
    IF ~IsSignedDecimal(s) THEN Fail(Err("ParseInt: invalid syntax"))
    ELSE Ok(Number(s[1] = "-", Canon(IF s[1] \in {"+", "-"} THEN Tail(s) ELSE s)))

\* strconv.ParseInt(s, 10, bitSize): a syntax error for anything but
\* [sign] digits, a range error outside -2^(bitSize-1) .. 2^(bitSize-1)-1.
ParseInt(s, bitSize) ==
    IF ~IsSignedDecimal(s) THEN Fail(Err("ParseInt: invalid syntax"))
    ELSE LET neg == s[1] = "-"
             mag == Canon(IF s[1] \in {"+", "-"} THEN Tail(s) ELSE s)
         IN  IF DigitsLess(IF neg THEN MinIntMagnitude(bitSize) ELSE MaxInt(bitSize), mag)
             THEN Fail(Err("ParseInt: value out of range"))
             ELSE Ok(Number(neg, mag))

\* strconv.ParseUint(s, 10, bitSize): digits only, no sign; a range error
\* above 2^bitSize - 1.
ParseUint(s, bitSize) ==
    IF s = <<>> \/ \E k \in DOMAIN s : ~IsDigit(s[k])
    THEN Fail(Err("ParseUint: invalid syntax"))
    ELSE IF DigitsLess(MaxUint(bitSize), Canon(s))
    THEN Fail(Err("ParseUint: value out of range"))
    ELSE Ok(Number(FALSE, Canon(s)))

\* strconv.ParseBool: 1, t, T, TRUE, true, True and 0, f, F, FALSE, false,
\* False; everything else is a syntax error.
ParseBool(s) ==
    IF s \in {<<"1">>, <<"t">>, <<"T">>, <<"T","R","U","E">>,
              <<"t","r","u","e">>, <<"T","r","u","e">>}
    THEN Ok(TRUE)
    ELSE IF s \in {<<"0">>, <<"f">>, <<"F">>, <<"F","A","L","S","E">>,
                   <<"f","a","l","s","e">>, <<"F","a","l","s","e">>}
    THEN Ok(FALSE)
    ELSE Fail(Err("ParseBool: invalid syntax"))

Abs(v) == IF v < 0 THEN 0 - v ELSE v

RECURSIVE Log2(_)
\* The exponent e with 2^e <= n < 2^(e+1), for n >= 1.
Log2(n) == IF n < 2 THEN 0 ELSE 1 + Log2(n \div 2)

\* The float32 nearest to the integer v (round half to even on a 24 bit
\* mantissa), as strconv.ParseFloat(s, 32) rounds its result.
RoundFloat32(v) ==
    IF Abs(v) < Pow2(24) THEN v
    ELSE LET ulp == Pow2(Log2(Abs(v)) - 23)
             q   == Abs(v) \div ulp
             r   == Abs(v) % ulp
             up  == 2 * r > ulp \/ (2 * r = ulp /\ q % 2 = 1)
             m   == (IF up THEN q + 1 ELSE q) * ulp
         IN  IF v < 0 THEN 0 - m ELSE m

\* strconv.ParseFloat(s, 32) on a tag literal. The literals of the model are
\* decimal integers or no numbers at all.
ParseFloat32(s) ==
    IF ~IsSignedDecimal(s) THEN Fail(Err("ParseFloat: invalid syntax"))
    ELSE Ok(RoundFloat32(SignedDecimalValue(s)))

\* strconv.ParseFloat(s, 64) on a raw value; a decimal integer of the model
\* is a float64 exactly.
ParseFloat64(s) ==
    IF ~IsSignedDecimal(s) THEN Fail(Err("ParseFloat: invalid syntax"))
    ELSE Ok(SignedDecimalValue(s))

\* strconv.ParseComplex(s, bitSize) on a raw value: a real number alone is
\* the complex number with that real part.
ParseComplex(s) ==
    IF ~IsSignedDecimal(s) THEN Fail(Err("ParseComplex: invalid syntax"))
    ELSE Ok([re |-> SignedDecimalValue(s), im |-> 0])

\* ------------------------------------------------------------------------
\* Struct tags and the validation they declare.

\* A struct tag is a function from the tag names it declares to their
\* literals. reflect.StructTag.Get gives "" for a name it does not declare.
TagGet(tag, t) == IF t \in DOMAIN tag THEN tag[t] ELSE <<>>

\* The ok of reflect.StructTag.Lookup.
TagFound(tag, t) == t \in DOMAIN tag

\* Characters of the model that take two bytes in UTF-8.
TwoByteChars == {"U+00E9"}

RECURSIVE ByteLen(_)
\* len(s) of a Go string: its number of bytes.
ByteLen(s) ==
    IF s = <<>> THEN 0
    ELSE (IF s[1] \in TwoByteChars THEN 2 ELSE 1) + ByteLen(Tail(s))

minLength(tag, value) ==
    IF ~TagFound(tag, "minLength") THEN Nil
    ELSE LET min == ParseInt(tag["minLength"], 64)
         IN  IF min.err # Nil THEN min.err
             ELSE IF ByteLen(value) < min.value THEN Err("minLength exceeded")
             ELSE Nil

maxLength(tag, value) ==
    IF ~TagFound(tag, "maxLength") THEN Nil
    ELSE LET max == ParseInt(tag["maxLength"], 64)
         IN  IF max.err # Nil THEN max.err
             ELSE IF ByteLen(value) > max.value THEN Err("maxLength exceeded")
             ELSE Nil

\* A minimum that passes over a bound it cannot parse.
minimumSkippingMalformed(tag, in) ==
    IF ~TagFound(tag, "minimum") THEN Nil
    ELSE LET value == ParseFloat32(tag["minimum"])
         IN  IF value.err # Nil THEN Nil
             ELSE IF in < value.value THEN Err("minimum exceeded")
             ELSE Nil

\* minimum(tag, in): the bound is parsed as a float32, in is widened to
\* float64 (exact for the integers of the model).
minimum(tag, in) ==
    IF ~TagFound(tag, "minimum") THEN Nil
    ELSE LET value == ParseFloat32(tag["minimum"])
         IN  IF value.err # Nil THEN value.err
             ELSE IF in < value.value THEN Err("minimum exceeded")
             ELSE Nil

maximum(tag, in) ==
    IF ~TagFound(tag, "maximum") THEN Nil
    ELSE LET value == ParseFloat32(tag["maximum"])
         IN  IF value.err # Nil THEN value.err
             ELSE IF in > value.value THEN Err("maximum exceeded")
             ELSE Nil

minMax(tag, value) ==
    IF minimum(tag, value) # Nil THEN minimum(tag, value)
    ELSE maximum(tag, value)

\* ------------------------------------------------------------------------
\* Picker.set: one field from its raw value.

\* What set did: it returned nil or an error, or it panicked; whether the
\* field was written, and with what; the calls it made.
Outcome(out, cause, written, value, calls) ==
    [out |-> out, cause |-> cause, written |-> written, value |-> value,
     calls |-> calls]

Returned(err, written, value, calls) ==
    Outcome(IF err = Nil THEN "nil" ELSE "error", err, written, value, calls)

\* The value of a panic, with its message.
Panic(msg) == [panic |-> msg]

Panicked(msg, written, value, calls) ==
    Outcome("panic", Panic(msg), written, value, calls)

\* A method name built without capitalizeFirstLetter.
setMethodNameAsDeclared(field) == <<"S","e","t">> \o field.Name

\* The name of the companion method of a field.
setMethodName(field) ==
    IF ~IsExported(field.Name)
    THEN <<"S","e","t">> \o capitalizeFirstLetter(field.Name)
    ELSE <<"S","e","t">> \o field.Name

\* The results of calling a companion method with the raw value, as
\* reflect.Values: each has a kind, may be nil, and holds an error or not.
\* A method is the destination type's own code; the model knows it by what
\* it returns and which raw values it accepts:
\*   void       func (x *T) SetF(v string)
\*   error      func (x *T) SetF(v string) error
\*   int_error  func (x *T) SetF(v string) (int, error)
\*   int        func (x *T) SetF(v string) int
\*   ptr        func (x *T) SetF(v string) *T, returning x
\*   nilptr     func (x *T) SetF(v string) *T, returning nil
\* The methods with an error result accept what Color's parser accepts and
\* return an error for everything else, as Car.SetModel does for "audi".
MethodAccepts(m, v) ==
    m \in {"error", "int_error"} => v \in {<<"r","e","d">>, <<"y","e","l","l","o","w">>,
                                           <<"b","l","a","c","k">>}

ErrorResult(m, v) ==
    [kind |-> "interface", isNil |-> MethodAccepts(m, v),
     error |-> IF MethodAccepts(m, v) THEN Nil ELSE Err("rejected by Set method")]

IntResult == [kind |-> "int", isNil |-> FALSE, error |-> Nil]

PtrResult(isNil) == [kind |-> "ptr", isNil |-> isNil, error |-> Nil]

MethodResults(m, v) ==
    CASE m = "void"      -> <<>>
      [] m = "error"     -> <<ErrorResult(m, v)>>
      [] m = "int_error" -> <<IntResult, ErrorResult(m, v)>>
      [] m = "int"       -> <<IntResult>>
      [] m = "ptr"       -> <<PtrResult(FALSE)>>
      [] m = "nilptr"    -> <<PtrResult(TRUE)>>

\* The kinds reflect.Value.IsNil is defined for; it panics for the others.
NillableKinds == {"chan", "func", "interface", "map", "ptr", "slice"}

\* A set that drops what the method returned, as Decode did before Pick
\* (decode.go line 85: _ = fn.Call(...)).
lastResultDropped(results, written, value, calls) ==
    Returned(Nil, written, value, calls)

\* Lines 146-150 of set: the error of the method's last result, if any.
\*     i := len(result)
\*     if i > 0 && !result[i-1].IsNil() { return result[i-1].Interface().(error) }
\*     return nil
\* IsNil panics for a result that cannot be nil, and the type assertion
\* panics for a non-nil result that holds no error.
lastResult(results, written, value, calls) ==
    LET n == Len(results) IN
    IF n = 0 THEN Returned(Nil, written, value, calls)
    ELSE IF results[n].kind \notin NillableKinds
    THEN Panicked(<<"reflect: call of reflect.Value.IsNil on ", results[n].kind, " Value">>,
                  written, value, calls)
    ELSE IF results[n].isNil THEN Returned(Nil, written, value, calls)
    ELSE IF results[n].error = Nil
    THEN Panicked(<<"interface conversion: ", results[n].kind, " is not error">>,
                  written, value, calls)
    ELSE Returned(results[n].error, written, value, calls)

\* A set that validates the length of the value after the companion method
\* returned nil.
callMethodValidated(field, m, idx, v) ==
    LET o == lastResult(MethodResults(m, v), MethodAccepts(m, v), v,
                 <<[op |-> "method", i |-> idx, name |-> setMethodName(field), arg |-> v]>>)
    IN  IF o.out = "nil" /\ minLength(field.Tag, v) # Nil
        THEN Returned(minLength(field.Tag, v), o.written, o.value, o.calls)
        ELSE IF o.out = "nil" /\ maxLength(field.Tag, v) # Nil
        THEN Returned(maxLength(field.Tag, v), o.written, o.value, o.calls)
        ELSE o

\* fn.Call of the companion method: the method stores the value it accepts
\* (Car.SetModel: c.model = v), then set looks at its results.
callMethod(field, m, idx, v) ==
    lastResult(MethodResults(m, v), MethodAccepts(m, v), v,
               <<[op |-> "method", i |-> idx, name |-> setMethodName(field), arg |-> v]>>)

\* ParseColor of the test suite.
ParseColor(v) ==
    CASE v = <<"y","e","l","l","o","w">> -> Ok(2)
      [] v = <<"r","e","d">>             -> Ok(1)
      [] v = <<"b","l","a","c","k">>     -> Ok(0)
      [] OTHER                           -> Fail(Err("unknown color"))

\* A registered setfn called on field i. SetColorField parses the color and
\* stores it with field.Set, which panics for a reflect.Value obtained from
\* an unexported field.
callSetfn(fn, field, idx, v) ==
    LET calls == <<[op |-> "setfn", i |-> idx, name |-> fn, arg |-> v]>>
        color == ParseColor(v)
    IN  IF color.err # Nil THEN Returned(color.err, FALSE, 0, calls)
        ELSE IF ~IsExported(field.Name)
        THEN Panicked(<<"reflect.Value.Set using value obtained using unexported field">>,
                      FALSE, 0, calls)
        ELSE Returned(Nil, TRUE, color.value, calls)

\* An assignment of the parsed value before it is validated.
checkedAfterAssignment(parsed, tag, calls) ==
    IF parsed.err # Nil THEN Returned(parsed.err, FALSE, 0, calls)
    ELSE Returned(minMax(tag, parsed.value), TRUE, parsed.value, calls)

\* Checked parse then assignment, for the integer kinds.
checked(parsed, tag, calls) ==
    IF parsed.err # Nil THEN Returned(parsed.err, FALSE, 0, calls)
    ELSE IF minMax(tag, parsed.value) # Nil
    THEN Returned(minMax(tag, parsed.value), FALSE, 0, calls)
    ELSE Returned(Nil, TRUE, parsed.value, calls)

\* A default case that returns nil for a kind without a case.
unsupportedIgnored(kind, calls) == Returned(Nil, FALSE, 0, calls)

\* The default case of the switch: fmt.Errorf("set %v: unsupported", kind).
unsupported(kind, calls) ==
    Returned([error |-> "set %v: unsupported", kind |-> kind], FALSE, 0, calls)

\* The switch on field.Type.Kind() of set. There is no case for reflect.Uint.
coerce(field, idx, v) ==
    LET kind  == Kind(field.Type)
        calls == <<[op |-> "coerce", i |-> idx, name |-> kind, arg |-> v]>>
    IN  CASE kind = "bool" ->
               LET value == ParseBool(v)
               IN  IF value.err # Nil THEN Returned(value.err, FALSE, 0, calls)
                   ELSE Returned(Nil, TRUE, value.value, calls)
          [] kind = "int"   -> checked(ParseInt(v, 64), field.Tag, calls)
          [] kind = "int8"  -> checked(ParseInt(v, 8), field.Tag, calls)
          [] kind = "int16" -> checked(ParseInt(v, 16), field.Tag, calls)
          [] kind = "int32" -> checked(ParseInt(v, 32), field.Tag, calls)
          [] kind = "int64" -> checked(ParseInt(v, 64), field.Tag, calls)
          [] kind = "uint8" -> checked(ParseUint(v, 8), field.Tag, calls)
          [] kind = "uint16" -> checked(ParseUint(v, 16), field.Tag, calls)
          [] kind = "uint32" -> checked(ParseUint(v, 32), field.Tag, calls)
          [] kind = "uint64" -> checked(ParseUint(v, 64), field.Tag, calls)
          [] kind = "float32" -> checked(ParseFloat32(v), field.Tag, calls)
          [] kind = "float64" -> checked(ParseFloat64(v), field.Tag, calls)
          [] kind \in {"complex64", "complex128"} ->
               LET value == ParseComplex(v)
               IN  IF value.err # Nil THEN Returned(value.err, FALSE, 0, calls)
                   ELSE Returned(Nil, TRUE, value.value, calls)
          [] kind = "string" ->
               IF minLength(field.Tag, v) # Nil
               THEN Returned(minLength(field.Tag, v), FALSE, 0, calls)
               ELSE IF maxLength(field.Tag, v) # Nil
               THEN Returned(maxLength(field.Tag, v), FALSE, 0, calls)
               ELSE Returned(Nil, TRUE, v, calls)
          [] OTHER -> unsupported(kind, calls)

\* A set that looks up the registered setfn before the private field check.
dispatchSetfnBeforePanic(hasMethod, isPrivateField, found) ==
    IF hasMethod THEN "method"
    ELSE IF found THEN "setfn"
    ELSE IF isPrivateField THEN "panic"
    ELSE "coerce"

\* A set that looks up the registered setfn before the companion method.
dispatchSetfnFirst(hasMethod, isPrivateField, found) ==
    IF found /\ ~isPrivateField THEN "setfn"
    ELSE IF hasMethod THEN "method"
    ELSE IF isPrivateField THEN "panic"
    ELSE "coerce"

\* The order in which set looks for a way to set a field with a non-empty
\* value: the companion method, the private field check, the registered
\* setfn of the field's type, the switch on its kind.
dispatch(hasMethod, isPrivateField, found) ==
    IF hasMethod THEN "method"
    ELSE IF isPrivateField THEN "panic"
    ELSE IF found THEN "setfn"
    ELSE "coerce"

\* A set without its first lines: no raw value makes it return at once.
skipsNever(v) == FALSE

\* Whether set returns at once for this raw value (line 130).
skips(v) == v = <<>>

\* p.set(obj, i, val), for the struct type T of obj and Go's field index idx.
set(T, registered, idx, v) ==
    LET field == T.Fields[idx + 1]
        how   == dispatch(setMethodName(field) \in DOMAIN T.Methods,
                          ~IsExported(field.Name),
                          field.Type \in DOMAIN registered)
    IN  IF skips(v) THEN Returned(Nil, FALSE, 0, <<>>)
        ELSE CASE how = "method" ->
                    callMethod(field, T.Methods[setMethodName(field)], idx, v)
               [] how = "panic" ->
                    Panicked(<<"private field ", field.Name, ", missing ",
                               setMethodName(field)>>, FALSE, 0, <<>>)
               [] how = "setfn" ->
                    callSetfn(registered[field.Type], field, idx, v)
               [] how = "coerce" ->
                    coerce(field, idx, v)

\* ------------------------------------------------------------------------
\* The destinations and requests Pick is called with.

Field(name, type, tag) == [Name |-> name, Type |-> type, Tag |-> tag]

NoTag == [t \in {} |-> <<>>]

\* The fields the destination structs are built from, each with the kind of
\* its companion Set method ("none": the type has no such method).
Entry(name, type, tag, method) == [field |-> Field(name, type, tag), method |-> method]

\* Flag bool `header:"flag"`
Flag == Entry(<<"F","l","a","g">>, "bool", "header" :> <<"flag">>, "none")

\* Jib bool `jib:"first" json:"jib"`: no source tag, filled by the body
Jib == Entry(<<"J","i","b">>, "bool", "jib" :> <<"first">> @@ "json" :> <<"jib">>, "none")

\* conn thing: no tag at all, unexported, of a kind set has no case for
Conn == Entry(<<"c","o","n","n">>, "xr.thing", NoTag, "none")

\* token string `header:"authorization" minLength:"2"`, no SetToken
Token ==
    Entry(<<"t","o","k","e","n">>, "string",
          "header" :> <<"authorization">> @@ "minLength" :> <<"2">>, "none")

\* Alias string `header:"alias" minLength:"2" json:"alias"`
Alias ==
    Entry(<<"A","l","i","a","s">>, "string",
          "header" :> <<"alias">> @@ "minLength" :> <<"2">> @@ "json" :> <<"alias">>,
          "none")

\* Nick string `form:"nick" minLength:"jib"`
Nick ==
    Entry(<<"N","i","c","k">>, "string",
          "form" :> <<"nick">> @@ "minLength" :> <<"j","i","b">>, "none")

\* I thing `header:"input"`
Thing == Entry(<<"I">>, "xr.thing", "header" :> <<"input">>, "none")

\* model string `query:"model"` with SetModel(v string) error, as Car has
Model == Entry(<<"m","o","d","e","l">>, "string", "query" :> <<"model">>, "error")

\* Hue Color `path:"hue"`
Hue == Entry(<<"H","u","e">>, "xr.Color", "path" :> <<"hue">>, "none")

\* paint Color `header:"paint"`, no SetPaint
Paint == Entry(<<"p","a","i","n","t">>, "xr.Color", "header" :> <<"paint">>, "none")

\* Tint Color `header:"tint"` with SetTint(v string) error
Tint == Entry(<<"T","i","n","t">>, "xr.Color", "header" :> <<"tint">>, "error")

\* note string `header:"note" maxLength:"2"` with SetNote(v string)
Note ==
    Entry(<<"n","o","t","e">>, "string",
          "header" :> <<"note">> @@ "maxLength" :> <<"2">>, "void")

\* size string `header:"size"` with SetSize(v string) int
Size == Entry(<<"s","i","z","e">>, "string", "header" :> <<"size">>, "int")

\* Next string `header:"next"` with SetNext(v string) *T returning x
Next_ == Entry(<<"N","e","x","t">>, "string", "header" :> <<"next">>, "ptr")

\* Last string `header:"last"` with SetLast(v string) *T returning nil
Last == Entry(<<"L","a","s","t">>, "string", "header" :> <<"last">>, "nilptr")

\* Count string `header:"count"` with SetCount(v string) (int, error)
Count == Entry(<<"C","o","u","n","t">>, "string", "header" :> <<"count">>, "int_error")

\* The name a type's author gives the companion method of a field: Set and
\* the field's name with its first letter capitalised (token, SetToken).
CompanionName(name) == <<"S","e","t">> \o <<ToUpperByte(name[1])>> \o Tail(name)

\* A struct type: its name as %v prints it, its fields in declaration
\* order, and its method set (of *T) by name.
StructType(entries) ==
    [Name    |-> "xr.T",
     Fields  |-> [k \in DOMAIN entries |-> entries[k].field],
     Methods |-> [n \in {CompanionName(entries[k].field.Name) :
                           k \in {j \in DOMAIN entries : entries[j].method # "none"}}
                    |-> (CHOOSE e \in Range(entries) :
                           e.method # "none" /\ CompanionName(e.field.Name) = n).method]]

\* The struct types of NumFields fields from a pool; Go rejects a struct
\* that declares two fields of one name.
StructTypes(pool) ==
    { StructType(entries) :
        entries \in { es \in [1..NumFields -> pool] :
                        \A j, k \in 1..NumFields : j # k => es[j] # es[k] } }

\* A reader table with a reader for one more tag.
valueReadersWithJib == {"path", "query", "header", "form", "jib"}

\* A reader table with a reader for the tag of the json decoder.
valueReadersWithJson == {"path", "query", "header", "form", "json"}

\* The tags readValue knows, the keys of valueReaders.
valueReaders == {"path", "query", "header", "form"}

\* The (source, key) pairs the fields of T read.
Lookups(T) ==
    UNION { {<<t, T.Fields[k].Tag[t]>> :
                k \in {j \in DOMAIN T.Fields : t \in DOMAIN T.Fields[j].Tag}} :
            t \in valueReaders }

\* The raw values a request holds for a key: none, and two values each of
\* which some kinds and setters accept and others reject.
RawValues == {<<>>, <<"1">>, <<"r","e","d">>}

\* Method, content-type header and body of a request. A body is valid,
\* broken or empty for the decoder that reads it.
AllShapes ==
    { <<"GET",    "application/json", "broken">>,
      <<"HEAD",   "application/json", "valid">>,
      <<"DELETE", "application/json", "empty">>,
      <<"POST",   "application/json", "valid">>,
      <<"POST",   "application/json", "broken">>,
      <<"PUT",    "application/json", "empty">>,
      <<"POST",   "application/json; charset=utf-8", "broken">>,
      <<"PATCH",  "", "valid">> }

FieldShapes ==
    { <<"GET",  "application/json", "broken">>,
      <<"POST", "application/json", "valid">> }

SetterShapes == { <<"GET", "application/json", "broken">> }

Requests(T, shapes) ==
    { [Method |-> s[1], ContentType |-> s[2], Body |-> s[3], Values |-> vs] :
        s \in shapes, vs \in [Lookups(T) -> RawValues] }

\* Pointers to the struct types of a pool, each with the requests of the
\* given shapes that hold a raw value for every key its fields read.
Calls(pool, shapes) ==
    UNION { {<<[kind |-> "ptr", T |-> T], r>> : r \in Requests(T, shapes)} :
            T \in StructTypes(pool) }

\* What Pick may be handed as dst besides a pointer to a struct: a struct
\* passed by value, and a pointer to something that is no struct.
ByValue == [kind |-> "value", T |-> StructType(<<Flag>>)]

PtrToInt == [kind |-> "ptrToInt", T |-> [Name |-> "int", Fields |-> <<>>, Methods |-> NoTag]]

\* The calls of the model, (dst, r) pairs of three families: fields that
\* are passed over, skipped or coerced; fields with setters; and every
\* request shape on fields the body fills.
PickCalls ==
    Calls({Flag, Jib, Conn, Token, Alias, Nick, Thing}, FieldShapes)
        \cup Calls({Model, Hue, Paint, Tint, Note, Size, Next_, Last, Count}, SetterShapes)
        \cup Calls({Flag, Jib, Alias, Model}, AllShapes)
        \cup {<<d, r>> : d \in {ByValue, PtrToInt}, r \in Requests(ByValue.T, AllShapes)}

\* The value a field holds when Pick is called, by kind, and the value a
\* valid body holds for it; both differ from what the raw values parse to.
PriorValue(kind) ==
    CASE kind = "bool"   -> FALSE
      [] kind = "string" -> <<"o","l","d">>
      [] kind = "struct" -> [Name |-> <<>>]
      [] OTHER           -> 7

BodyValue(kind) ==
    CASE kind = "bool"   -> TRUE
      [] kind = "string" -> <<"J","o","h","n">>
      [] kind = "struct" -> [Name |-> <<"J","o","h","n">>]
      [] OTHER           -> 42

\* ------------------------------------------------------------------------
\* The body decoders.

\* A newDecoder that looks up the media type of the header, the content
\* type without its parameters.
newDecoderByMediaType(reg, ct) ==
    LET mediaType == IF ct = "application/json; charset=utf-8"
                     THEN "application/json" ELSE ct
    IN  IF mediaType \in DOMAIN reg THEN reg[mediaType] ELSE "noop"

\* p.newDecoder(v, r): the factory registered for exactly this content
\* type, noop for every other.
newDecoder(reg, ct) == IF ct \in DOMAIN reg THEN reg[ct] ELSE "noop"

\* The error of dec.Decode(dst). noop returns nil; encoding/json's decoder
\* returns io.EOF for an empty body, a syntax error for a broken one, and
\* cannot unmarshal an object into a value that is no struct.
DecodeError(dec, d, body) ==
    IF dec = "noop" THEN Nil
    ELSE CASE body = "empty"  -> Err("EOF")
           [] body = "broken" -> Err("invalid character")
           [] body = "valid"  ->
                IF d.kind = "ptrToInt" THEN Err("json: cannot unmarshal object")
                ELSE Nil

\* A Decode that stores only into the fields no value reader has a tag for.
DecodedUnlessRead(dec, T, k) ==
    /\ dec # "noop"
    /\ IsExported(T.Fields[k].Name)
    /\ TagFound(T.Fields[k].Tag, "json")
    /\ \A t \in valueReaders : TagGet(T.Fields[k].Tag, t) = <<>>

\* The fields a successful Decode stores into: encoding/json fills the
\* exported fields the body has a member for, here those with a json tag.
Decoded(dec, T, k) ==
    /\ dec # "noop"
    /\ IsExported(T.Fields[k].Name)
    /\ TagFound(T.Fields[k].Tag, "json")

\* ------------------------------------------------------------------------
\* PickError and what Pick reads.

PickError(dest, source, cause) == [Dest |-> dest, Source |-> source, Cause |-> cause]

\* (*PickError).Error(): fmt.Sprintf("pick %s from %s: %s", e.Dest,
\* e.Source, e.Cause.Error()); the call of Error on a nil Cause panics.
Error(e) ==
    IF e.Cause = Nil THEN Panic(<<"invalid memory address or nil pointer dereference">>)
    ELSE <<"pick ">> \o e.Dest \o <<" from ">> \o e.Source \o <<": ", e.Cause>>

\* fmt.Sprintf("%T", dst)[1:]: the type of the pointer without its "*".
BodyDest(d) == Tail(<<"*", d.T.Name>>)

\* fmt.Sprintf("%v.%s", obj.Elem().Type(), Field(i).Name)
FieldDest(T, idx) == <<T.Name, ".">> \o T.Fields[idx + 1].Name

\* A source locator without the kind of the source.
SourceOfKeyAlone(t, key) == key

\* fmt.Sprintf("%s[%s]", t, v)
SourceOf(t, key) == <<t, "[">> \o key \o <<"]">>

\* readValue ranges over the map valueReaders, in an order Go leaves open,
\* and reads with the first tag the field declares: any of these.
SourceTags(tag) == {t \in valueReaders : TagGet(tag, t) # <<>>}

\* The case of line 56 without DELETE.
NoBodyMethodsGetHead == {"GET", "HEAD"}

\* The methods for which Pick decodes no body (line 56).
NoBodyMethods == {"GET", "HEAD", "DELETE"}

\* A Pick that goes on to the fields whatever Decode returned.
afterDecodeIgnoring(err) == "fields"

\* What Pick does with the error of dec.Decode(dst) (lines 61-67).
afterDecode(err) == IF err # Nil THEN "failed" ELSE "fields"

\* A loop that goes on to the next field after an error of set.
afterSetContinuing(out) ==
    CASE out = "error" -> "fields"
      [] out = "panic" -> "fatal"
      [] out = "nil"   -> "fields"

\* What Pick does after p.set returned for field idx (lines 79-86).
afterSet(out) ==
    CASE out = "error" -> "failed"
      [] out = "panic" -> "fatal"
      [] out = "nil"   -> "fields"

\* ------------------------------------------------------------------------
\* The program.

\* init() of default.go: PickerDefault is a NewPicker() with the json
\* decoder registered; no Pick call is running.
Init ==
    /\ registry = ("application/json" :> "json")
    /\ setters = NoTag
    /\ pc = "idle"
    /\ dst = Nil
    /\ req = Nil
    /\ val = <<>>
    /\ val0 = <<>>
    /\ val1 = <<>>
    /\ i = 0
    /\ result = Nil
    /\ panicked = Nil
    /\ log = <<>>

\* What the callers of the model register.
ContentTypes == {"application/json; charset=utf-8"}
SetterTypes  == {"xr.Color"}

\* p.Register(contentType, fn): p.registry[contentType] = fn
Register(contentType, fn) ==
    /\ pc = "idle"
    /\ registry' = [c \in DOMAIN registry \cup {contentType} |->
                      IF c = contentType THEN fn ELSE registry[c]]
    /\ UNCHANGED <<setters, pc, dst, req, val, val0, val1, i, result, panicked, log>>

\* A UseSetter without its check: the last registration wins.
UseSetterOverwriting(typ, fn) ==
    /\ pc = "idle"
    /\ setters' = [t \in DOMAIN setters \cup {typ} |->
                      IF t = typ THEN fn ELSE setters[t]]
    /\ UNCHANGED <<registry, pc, dst, req, val, val0, val1, i, result, panicked, log>>

\* p.UseSetter(typ, fn): panics if typ is registered, else registers fn.
UseSetter(typ, fn) ==
    /\ pc = "idle"
    /\ IF typ \in DOMAIN setters
       THEN /\ pc' = "fatal"
            /\ panicked' = Panic(<<"UseSetter(\"", typ, "\"): already exists">>)
            /\ UNCHANGED setters
       ELSE /\ setters' = [t \in DOMAIN setters \cup {typ} |->
                             IF t = typ THEN fn ELSE setters[t]]
            /\ UNCHANGED <<pc, panicked>>
    /\ UNCHANGED <<registry, dst, req, val, val0, val1, i, result, log>>

\* p.Pick(dst, r), lines 49-52: dst must be a pointer.
Pick(d, r) ==
    /\ pc = "idle"
    /\ dst' = d
    /\ req' = r
    /\ val' = [k \in DOMAIN d.T.Fields |-> PriorValue(Kind(d.T.Fields[k].Type))]
    /\ val0' = val'
    /\ IF d.kind = "value"
       THEN /\ pc' = "fatal"
            /\ panicked' = Panic(<<"Pick(dst, r): dst must be a pointer">>)
       ELSE /\ pc' = "body"
            /\ UNCHANGED panicked
    /\ UNCHANGED <<registry, setters, val1, i, result, log>>

\* Lines 54-68: decide for the input format and decode the body.
decodeBody ==
    /\ pc = "body"
    /\ IF req.Method \in NoBodyMethods
       THEN /\ pc' = "fields"
            /\ UNCHANGED <<val, result, log>>
       ELSE LET ct  == req.ContentType
                dec == newDecoder(registry, ct)
                err == DecodeError(dec, dst, req.Body)
            IN  /\ log' = log \o <<[op |-> "newDecoder", i |-> -1, name |-> ct, arg |-> <<>>],
                                   [op |-> "Decode", i |-> -1, name |-> dec, arg |-> <<>>]>>
                /\ pc' = afterDecode(err)
                /\ result' = IF afterDecode(err) = "failed"
                             THEN PickError(BodyDest(dst), <<"body">>, err)
                             ELSE result
                /\ val' = IF err = Nil
                          THEN [k \in DOMAIN val |->
                                  IF Decoded(dec, dst.T, k)
                                  THEN BodyValue(Kind(dst.T.Fields[k].Type))
                                  ELSE val[k]]
                          ELSE val
    /\ val1' = val'
    /\ i' = 0
    /\ UNCHANGED <<registry, setters, dst, req, val0, panicked>>

\* Line 71 for a dst that points to no struct: obj.Elem().NumField() panics.
fieldsOfNonStruct ==
    /\ pc = "fields"
    /\ dst.kind = "ptrToInt"
    /\ pc' = "fatal"
    /\ panicked' = Panic(<<"reflect: call of reflect.Value.NumField on int Value">>)
    /\ UNCHANGED <<registry, setters, dst, req, val, val0, val1, i, result, log>>

\* A loop whose continue does not reach the increment of i.
skipFieldStaying ==
    /\ pc = "fields"
    /\ dst.kind = "ptr"
    /\ i < Len(dst.T.Fields)
    /\ SourceTags(dst.T.Fields[i + 1].Tag) = {}
    /\ UNCHANGED <<registry, setters, pc, dst, req, val, val0, val1, i, result, panicked, log>>

\* Lines 73-77: a field with none of the tags of valueReaders is passed over.
skipField ==
    /\ pc = "fields"
    /\ dst.kind = "ptr"
    /\ i < Len(dst.T.Fields)
    /\ SourceTags(dst.T.Fields[i + 1].Tag) = {}
    /\ i' = i + 1
    /\ UNCHANGED <<registry, setters, pc, dst, req, val, val0, val1, result, panicked, log>>

\* A loop that restores the destination when set fails.
pickFieldRollingBack(t) ==
    /\ pc = "fields"
    /\ dst.kind = "ptr"
    /\ i < Len(dst.T.Fields)
    /\ t \in SourceTags(dst.T.Fields[i + 1].Tag)
    /\ LET key == dst.T.Fields[i + 1].Tag[t]
           v   == req.Values[<<t, key>>]
           o   == set(dst.T, setters, i, v)
       IN  /\ log' = log \o <<[op |-> "read", i |-> i, name |-> t, arg |-> key]>> \o o.calls
           /\ val' = IF afterSet(o.out) = "failed" THEN val0
                     ELSE IF o.written THEN [val EXCEPT ![i + 1] = o.value] ELSE val
           /\ pc' = afterSet(o.out)
           /\ result' = IF afterSet(o.out) = "failed"
                        THEN PickError(FieldDest(dst.T, i), SourceOf(t, key), o.cause)
                        ELSE result
           /\ panicked' = IF afterSet(o.out) = "fatal" THEN o.cause ELSE panicked
           /\ i' = IF afterSet(o.out) = "fields" THEN i + 1 ELSE i
    /\ UNCHANGED <<registry, setters, dst, req, val0, val1>>

\* Lines 73-85: read the field's raw value with tag t and set the field.
pickField(t) ==
    /\ pc = "fields"
    /\ dst.kind = "ptr"
    /\ i < Len(dst.T.Fields)
    /\ t \in SourceTags(dst.T.Fields[i + 1].Tag)
    /\ LET key == dst.T.Fields[i + 1].Tag[t]
           v   == req.Values[<<t, key>>]
           o   == set(dst.T, setters, i, v)
       IN  /\ log' = log \o <<[op |-> "read", i |-> i, name |-> t, arg |-> key]>> \o o.calls
           /\ val' = IF o.written THEN [val EXCEPT ![i + 1] = o.value] ELSE val
           /\ pc' = afterSet(o.out)
           /\ result' = IF afterSet(o.out) = "failed"
                        THEN PickError(FieldDest(dst.T, i), SourceOf(t, key), o.cause)
                        ELSE result
           /\ panicked' = IF afterSet(o.out) = "fatal" THEN o.cause ELSE panicked
           /\ i' = IF afterSet(o.out) = "fields" THEN i + 1 ELSE i
    /\ UNCHANGED <<registry, setters, dst, req, val0, val1>>

\* Line 87: every field was passed; return nil.
return ==
    /\ pc = "fields"
    /\ dst.kind = "ptr"
    /\ i = Len(dst.T.Fields)
    /\ pc' = "done"
    /\ result' = Nil
    /\ UNCHANGED <<registry, setters, dst, req, val, val0, val1, i, panicked, log>>

Next ==
    \/ \E ct \in ContentTypes : Register(ct, "json")
    \/ \E typ \in SetterTypes : UseSetter(typ, "SetColorField")
    \/ pc = "idle" /\ \E call \in PickCalls : Pick(call[1], call[2])
    \/ decodeBody
    \/ fieldsOfNonStruct
    \/ skipField
    \/ \E t \in valueReaders : pickField(t)
    \/ return

Spec == Init /\ [][Next]_vars

\* ------------------------------------------------------------------------
\* What the properties speak of.

\* The source tags a field can carry.
SourceTagNames == {"path", "query", "header", "form"}

HasSourceTag(f) == \E t \in SourceTagNames : TagGet(f.Tag, t) # <<>>

\* The field of the destination with Go's index j.
FieldAt(j) == dst.T.Fields[j + 1]

FieldIndexes == 0 .. (Len(dst.T.Fields) - 1)

\* The positions of the log where a field's raw value was read.
Reads == {k \in DOMAIN log : log[k].op = "read"}

\* The raw value a read returned.
RawRead(k) == req.Values[<<log[k].name, log[k].arg>>]


\* A call of Pick is under way or over.
Called == dst # Nil

\* The call ended with an error of the body decoder.
BodyFailed == pc = "failed" /\ result.Source = <<"body">>

\* The call ended with an error of the field with index i.
FieldFailed == pc = "failed" /\ result.Source # <<"body">>

\* ------------------------------------------------------------------------
\* C1. Stop on first error: when Pick returns the error of a field, that
\* field is the one the loop stopped at and the first whose set failed, the
\* error names it, and for no later field a value was read, a setter called
\* or a value stored; and Pick returns nil only if no set failed.
C1_StopOnFirstError ==
    Called =>
      /\ FieldFailed =>
           /\ result.Dest = <<dst.T.Name, ".">> \o FieldAt(i).Name
           /\ \E k \in Reads :
                /\ log[k].i = i
                /\ set(dst.T, setters, i, RawRead(k)).out = "error"
                /\ result.Cause = set(dst.T, setters, i, RawRead(k)).cause
           /\ \A k \in Reads :
                log[k].i < i => set(dst.T, setters, log[k].i, RawRead(k)).out = "nil"
           /\ \A k \in DOMAIN log : log[k].i <= i
           /\ \A j \in FieldIndexes : j > i => val[j + 1] = val1[j + 1]
      /\ pc = "done" =>
           \A k \in Reads : set(dst.T, setters, log[k].i, RawRead(k)).out = "nil"

\* C1's case: the first of two fields failed and the second, whose raw
\* value would fail as well, was left alone.
C1_Witness ==
    /\ Called
    /\ FieldFailed
    /\ i = 0
    /\ Len(dst.T.Fields) >= 2
    /\ \E t \in SourceTagNames :
         /\ TagGet(FieldAt(1).Tag, t) # <<>>
         /\ set(dst.T, setters, 1, req.Values[<<t, FieldAt(1).Tag[t]>>]).out = "error"

\* ------------------------------------------------------------------------
\* C2. A field with none of the tags path, query, header, form is never
\* touched by the field loop: nothing is read or called for it, no error and
\* no panic is its, its value stays what it was when the loop began, and
\* what it was when Pick was called if no body was decoded.
C2_UntaggedFieldUntouched ==
    (Called /\ dst.kind = "ptr") =>
      \A j \in FieldIndexes :
        ~HasSourceTag(FieldAt(j)) =>
          /\ \A k \in DOMAIN log : log[k].i # j
          /\ ~(FieldFailed /\ i = j)
          /\ ~(pc = "fatal" /\ i = j)
          /\ val1 # <<>> => val[j + 1] = val1[j + 1]
          /\ (\A k \in DOMAIN log : log[k].op # "Decode") => val[j + 1] = val0[j + 1]

\* C2's case: Pick returned nil over a struct with an unexported field of
\* an unsupported kind and no source tag, after setting another field.
C2_Witness ==
    /\ Called
    /\ pc = "done"
    /\ \E j \in FieldIndexes :
         /\ ~HasSourceTag(FieldAt(j))
         /\ ~IsExported(FieldAt(j).Name)
         /\ Kind(FieldAt(j).Type) = "struct"
    /\ \E k \in DOMAIN log : log[k].op = "coerce"

\* ------------------------------------------------------------------------
\* C3. A field whose source tag resolves to the empty string is skipped:
\* it keeps its value, no method, setfn or coercion runs for it, no
\* validation tag counts, no error and no panic is its, and the loop goes
\* on to the next field.
C3_EmptyValueSkipped ==
    Called =>
      \A k \in Reads :
        RawRead(k) = <<>> =>
          /\ val[log[k].i + 1] = val1[log[k].i + 1]
          /\ \A m \in DOMAIN log : log[m].i = log[k].i => log[m].op = "read"
          /\ ~(pc \in {"failed", "fatal"} /\ i = log[k].i)
          /\ i > log[k].i

\* C3's case: Pick returned nil although it read the empty string for an
\* unexported field without a Set method whose minLength is 2, and for a
\* field whose minLength is no number.
C3_Witness ==
    /\ Called
    /\ pc = "done"
    /\ \E k \in Reads :
         /\ RawRead(k) = <<>>
         /\ ~IsExported(FieldAt(log[k].i).Name)
         /\ dst.T.Methods = NoTag
         /\ TagGet(FieldAt(log[k].i).Tag, "minLength") = <<"2">>
    /\ \E k \in Reads :
         /\ RawRead(k) = <<>>
         /\ TagGet(FieldAt(log[k].i).Tag, "minLength") = <<"j","i","b">>

DecoderError == DecodeError(newDecoder(registry, req.ContentType), dst, req.Body)

\* ------------------------------------------------------------------------
\* C5. When the body decoder returns an error (method not GET, HEAD or
\* DELETE), Pick returns a PickError with Source "body" and that error as
\* Cause, and the field loop never starts: nothing is read, no setter is
\* called, no field is stored into. No other error has Source "body".
C5_DecodeErrorAborts ==
    (Called /\ dst.kind # "value" /\ pc # "body") =>
      /\ (req.Method \notin {"GET", "HEAD", "DELETE"} /\ DecoderError # Nil) =>
           /\ pc = "failed"
           /\ result.Source = <<"body">>
           /\ result.Cause = DecoderError
           /\ \A k \in DOMAIN log : log[k].op \in {"newDecoder", "Decode"}
           /\ val = val0
      /\ BodyFailed =>
           /\ req.Method \notin {"GET", "HEAD", "DELETE"}
           /\ DecoderError # Nil

\* C5's case: a body error ended a call whose first field has a source tag
\* with a raw value to read.
C5_Witness ==
    /\ Called
    /\ BodyFailed
    /\ dst.kind = "ptr"
    /\ \E t \in SourceTagNames :
         /\ TagGet(FieldAt(0).Tag, t) # <<>>
         /\ req.Values[<<t, FieldAt(0).Tag[t]>>] # <<>>

\* The companion method the destination type declares for field j, if any.
HasCompanion(j) == CompanionName(FieldAt(j).Name) \in DOMAIN dst.T.Methods

CompanionKind(j) == dst.T.Methods[CompanionName(FieldAt(j).Name)]

\* Whether a setfn is registered for the declared type of field j.
HasOverride(j) == FieldAt(j).Type \in DOMAIN setters

\* The non-empty raw values read: the reads for which set goes past line 132.
ValueReads == {k \in Reads : RawRead(k) # <<>>}

\* The log entries of an operation made for field j.
EntriesOf(op, j) == {m \in DOMAIN log : log[m].op = op /\ log[m].i = j}

\* Pick stopped at field j, with an error or with a panic.
StoppedAt(j) == pc \in {"failed", "fatal"} /\ i = j

\* The message of the panic of lines 153-158 for field j.
MissingSet(j) ==
    Panic(<<"private field ", FieldAt(j).Name, ", missing ", CompanionName(FieldAt(j).Name)>>)

\* ------------------------------------------------------------------------
\* C6. When an unexported field has a source tag that resolves to a
\* non-empty value and the destination has no method named Set + the field
\* name with its first letter capitalised, Pick panics and returns no
\* PickError; the message names the field and the missing method, the read
\* is the last thing Pick did, and no later field is read, set or assigned.
\* A Pick that returned nil met no such field with a non-empty value.
C6_PrivateWithoutSetPanics ==
    (Called /\ dst.kind = "ptr") =>
      \A k \in ValueReads :
        (~IsExported(FieldAt(log[k].i).Name) /\ ~HasCompanion(log[k].i)) =>
          /\ pc = "fatal"
          /\ i = log[k].i
          /\ result = Nil
          /\ panicked = MissingSet(log[k].i)
          /\ k = Len(log)
          /\ \A j \in FieldIndexes : j > i => val[j + 1] = val1[j + 1]

\* C6's case: Pick panicked at a first field token of two, where no
\* override is registered and the second field has a value to read.
C6_Witness ==
    /\ Called
    /\ pc = "fatal"
    /\ dst.kind = "ptr"
    /\ i = 0
    /\ Len(dst.T.Fields) = 2
    /\ setters = NoTag
    /\ FieldAt(0).Name = <<"t","o","k","e","n">>
    /\ panicked = MissingSet(0)
    /\ req.Values[<<"header", FieldAt(1).Tag["header"]>>] # <<>>

C8_CompanionMethodFirst ==
    (Called /\ dst.kind = "ptr") =>
      /\ \A k \in ValueReads :
           LET j == log[k].i IN
             /\ HasCompanion(j) =>
                  /\ EntriesOf("method", j) = {k + 1}
                  /\ log[k + 1].name = CompanionName(FieldAt(j).Name)
                  /\ log[k + 1].arg = RawRead(k)
                  /\ EntriesOf("setfn", j) = {}
                  /\ EntriesOf("coerce", j) = {}
             /\ (~HasCompanion(j) /\ IsExported(FieldAt(j).Name) /\ HasOverride(j)) =>
                  /\ EntriesOf("setfn", j) = {k + 1}
                  /\ log[k + 1].name = setters[FieldAt(j).Type]
                  /\ EntriesOf("method", j) = {}
                  /\ EntriesOf("coerce", j) = {}
             /\ (~HasCompanion(j) /\ IsExported(FieldAt(j).Name) /\ ~HasOverride(j)) =>
                  /\ EntriesOf("coerce", j) = {k + 1}
                  /\ EntriesOf("method", j) = {}
                  /\ EntriesOf("setfn", j) = {}
      /\ \A m \in DOMAIN log :
           /\ log[m].op = "setfn" => ~HasCompanion(log[m].i)
           /\ log[m].op = "coerce" => ~HasCompanion(log[m].i) /\ ~HasOverride(log[m].i)

\* C8's case: a field of type Color with a companion method was set through
\* the method while SetColorField was registered for Color.
C8_Witness ==
    /\ Called
    /\ pc = "done"
    /\ \E k \in ValueReads :
         /\ HasCompanion(log[k].i)
         /\ HasOverride(log[k].i)
         /\ EntriesOf("method", log[k].i) # {}
         /\ val[log[k].i + 1] = RawRead(k)

\* The method calls whose last result is an error: non-nil, or nil.
ErrorCalls(isNil) ==
    {m \in DOMAIN log :
        /\ log[m].op = "method"
        /\ CompanionKind(log[m].i) \in {"error", "int_error"}
        /\ LET results == MethodResults(CompanionKind(log[m].i), log[m].arg)
           IN  results[Len(results)].isNil = isNil}

\* ------------------------------------------------------------------------
\* C9. When a companion method is called with the raw value and its last
\* result is a non-nil error, Pick stops and returns a PickError with that
\* error as Cause, the field as Dest and the field's source as Source. When
\* the last result is a nil error, or the method returns nothing, Pick goes
\* on to the next field.
C9_MethodErrorReturned ==
    (Called /\ dst.kind = "ptr") =>
      /\ \A m \in ErrorCalls(FALSE) :
           LET results == MethodResults(CompanionKind(log[m].i), log[m].arg) IN
             /\ pc = "failed"
             /\ i = log[m].i
             /\ m = Len(log)
             /\ result.Cause = results[Len(results)].error
             /\ result.Dest = <<dst.T.Name, ".">> \o FieldAt(i).Name
             /\ result.Source = <<log[m - 1].name, "[">> \o log[m - 1].arg \o <<"]">>
      /\ \A m \in DOMAIN log :
           (\/ m \in ErrorCalls(TRUE)
            \/ log[m].op = "method" /\ CompanionKind(log[m].i) = "void") =>
             /\ ~StoppedAt(log[m].i)
             /\ i > log[m].i

\* C9's case: Pick failed on the error of the second field's companion
\* method, after the first field's companion method returned a nil error.
C9_Witness ==
    /\ Called
    /\ pc = "failed"
    /\ i = 1
    /\ ErrorCalls(FALSE) # {}
    /\ ErrorCalls(TRUE) # {}

\* The method calls whose last result is no error: an int or a pointer.
NonErrorCalls ==
    {m \in DOMAIN log :
        /\ log[m].op = "method"
        /\ CompanionKind(log[m].i) \in {"int", "ptr", "nilptr"}}

\* ------------------------------------------------------------------------
\* C10, as the specification states it. What a companion method returns
\* besides an error is ignored: after a call of a method whose last result
\* is not an error (an int, a pointer), Pick neither fails nor halts at that
\* field and goes on to the next one.
C10_NonErrorResultsIgnored ==
    (Called /\ dst.kind = "ptr") =>
      \A m \in NonErrorCalls :
        /\ ~StoppedAt(log[m].i)
        /\ i > log[m].i

\* ------------------------------------------------------------------------
\* The configuration of a picker alone: any sequence of UseSetter calls,
\* for several type names and two functions.

TypeNames == {"xr.Color", "xr.thing", "int", "string"}

Setfns == {"SetColorField", "otherSetfn"}

NextSetters == \E typ \in TypeNames, fn \in Setfns : UseSetter(typ, fn)

SpecSetters == Init /\ [][NextSetters]_vars

\* The panic of UseSetter for a type name.
AlreadyExists(typ) == Panic(<<"UseSetter(\"", typ, "\"): already exists">>)

\* ------------------------------------------------------------------------
\* C11. UseSetter panics whenever typ is already registered and leaves the
\* setters unchanged: no step changes the function of a registered type, a
\* step that panics changes nothing and names a registered type, and a step
\* that does not panic registers exactly one type that was not registered.
\* So every type name maps to the function of its first registration.
C11_FirstRegistrationStays ==
    [][ /\ \A t \in DOMAIN setters :
             t \in DOMAIN setters' /\ setters'[t] = setters[t]
        /\ pc' = "fatal" =>
             /\ setters' = setters
             /\ \E t \in DOMAIN setters : panicked' = AlreadyExists(t)
        /\ pc' # "fatal" =>
             /\ Cardinality(DOMAIN setters') = Cardinality(DOMAIN setters) + 1
             /\ panicked' = Nil
      ]_vars

\* C11's case: a UseSetter call for xr.Color panicked while xr.Color was
\* registered with the other function, after three registrations.
C11_Witness ==
    /\ pc = "fatal"
    /\ dst = Nil
    /\ panicked = AlreadyExists("xr.Color")
    /\ Cardinality(DOMAIN setters) = 3
    /\ setters["xr.Color"] = "otherSetfn"

\* ------------------------------------------------------------------------
\* The built-in coercion alone: PickerDefault, with no setfn registered, is
\* handed a pointer to a struct of one exported field V `header:"v"` of a
\* type and with validation tags, and a GET request with one raw value.

RECURSIVE Decimal(_)
\* The decimal digits of a natural number, as a test writes them.
Decimal(n) ==
    IF n < 10 THEN <<Digits[n + 1]>>
    ELSE Decimal(n \div 10) \o <<Digits[(n % 10) + 1]>>

\* V <type> `header:"v" <tags>`
Single(type, tags) == Entry(<<"V">>, type, ("header" :> <<"v">>) @@ tags, "none")

\* Pick(&x, r) for x of one field, once for each of the raw values.
CallsOf(entry, raws) ==
    { <<[kind |-> "ptr", T |-> StructType(<<entry>>)],
        [Method |-> "GET", ContentType |-> "", Body |-> "empty",
         Values |-> (<<"header", <<"v">>>> :> raw)]>> : raw \in raws }

\* The kinds with a case in set that calls minMax.
BoundedTypes == {"int", "int64", "uint8", "float32", "float64"}

\* The smallest and largest bound of the small range, and the first
\* integer that is no float32: 2^24 + 1.
Low == 3
High == 5
Float32Gap == 16777217

\* Fields with minimum and maximum, read with the values around the bounds.
BoundCalls ==
    UNION { CallsOf(Single(type, "minimum" :> Decimal(Low) @@ "maximum" :> Decimal(High)),
                    {Decimal(n) : n \in (Low - 1) .. (High + 1)}) : type \in BoundedTypes }
      \cup CallsOf(Single("int", "minimum" :> Decimal(Low)), {Decimal(Low - 1), Decimal(Low)})
      \cup CallsOf(Single("int", "maximum" :> Decimal(High)), {Decimal(High), Decimal(High + 1)})
      \cup CallsOf(Single("int", "maximum" :> Decimal(Float32Gap)),
                   {Decimal(n) : n \in (Float32Gap - 1) .. (Float32Gap + 1)})
      \cup CallsOf(Single("int", "minimum" :> Decimal(Float32Gap)),
                   {Decimal(n) : n \in (Float32Gap - 1) .. (Float32Gap + 1)})

\* String fields with minLength and maxLength, read with values of one to
\* four characters, some with characters of two bytes.
LengthCalls ==
    CallsOf(Single("string", "minLength" :> <<"2">> @@ "maxLength" :> <<"3">>),
            { <<"a">>, <<"a","b">>, <<"a","b","c">>, <<"a","b","c","d">>,
              <<"U+00E9">>, <<"U+00E9","U+00E9">>, <<"a","U+00E9","b">> })
      \cup CallsOf(Single("string", "minLength" :> <<"2">>), {<<"a">>, <<"a","b">>, <<"U+00E9">>})
      \cup CallsOf(Single("string", "maxLength" :> <<"1">>), {<<"a">>, <<"a","b">>, <<"U+00E9">>})

\* A bound literal that is no number.
NoNumber == <<"a","b","c">>

\* Fields with a bound literal that is no number: on the kinds whose case
\* evaluates the tag, alone and after a well-formed bound, and on kinds
\* whose case does not evaluate it.
MalformedCalls ==
    UNION { CallsOf(Single(type, t :> NoNumber), {Decimal(1), Decimal(Low)}) :
              type \in {"int", "uint8", "float64", "bool", "complex64", "string"},
              t \in {"minimum", "maximum"} }
      \cup CallsOf(Single("int", "minimum" :> Decimal(Low) @@ "maximum" :> NoNumber),
                   {Decimal(Low - 1), Decimal(Low)})
      \cup UNION { CallsOf(Single(type, t :> NoNumber), {Decimal(1), <<"a","b">>}) :
                     type \in {"string", "int", "bool"}, t \in {"minLength", "maxLength"} }
      \cup CallsOf(Single("string", "minLength" :> <<"2">> @@ "maxLength" :> NoNumber),
                   {<<"a">>, <<"a","b">>})

\* The primitive kinds of the coercion table as the package documents it.
PrimitiveTypes ==
    {"bool", "int", "int8", "int16", "int32", "int64",
     "uint", "uint8", "uint16", "uint32", "uint64",
     "float32", "float64", "complex64", "complex128", "string"}

\* A field of each primitive kind, read with a value every kind parses.
KindCalls == UNION { CallsOf(Single(type, NoTag), {Decimal(1)}) : type \in PrimitiveTypes }

\* Types of the kinds struct, slice, map and pointer.
OtherTypes == {"xr.thing", "[]string", "map[string]string", "*int"}

OtherKindCalls ==
    UNION { CallsOf(Single(type, NoTag), {Decimal(1), <<"a","b">>}) : type \in OtherTypes }

\* For each sized integer type: its largest and smallest value, the numbers
\* next to them outside its range, and zero; whether the number fits the
\* type.
WidthCases ==
    { [type |-> "int8", raw |-> <<"1","2","7">>,
       fits |-> TRUE],
      [type |-> "int8", raw |-> <<"1","2","8">>,
       fits |-> FALSE],
      [type |-> "int8", raw |-> <<"-","1","2","8">>,
       fits |-> TRUE],
      [type |-> "int8", raw |-> <<"-","1","2","9">>,
       fits |-> FALSE],
      [type |-> "int8", raw |-> <<"0">>,
       fits |-> TRUE],
      [type |-> "uint8", raw |-> <<"2","5","5">>,
       fits |-> TRUE],
      [type |-> "uint8", raw |-> <<"2","5","6">>,
       fits |-> FALSE],
      [type |-> "uint8", raw |-> <<"0">>,
       fits |-> TRUE],
      [type |-> "uint8", raw |-> <<"-","1">>,
       fits |-> FALSE],
      [type |-> "int16", raw |-> <<"3","2","7","6","7">>,
       fits |-> TRUE],
      [type |-> "int16", raw |-> <<"3","2","7","6","8">>,
       fits |-> FALSE],
      [type |-> "int16", raw |-> <<"-","3","2","7","6","8">>,
       fits |-> TRUE],
      [type |-> "int16", raw |-> <<"-","3","2","7","6","9">>,
       fits |-> FALSE],
      [type |-> "int16", raw |-> <<"0">>,
       fits |-> TRUE],
      [type |-> "uint16", raw |-> <<"6","5","5","3","5">>,
       fits |-> TRUE],
      [type |-> "uint16", raw |-> <<"6","5","5","3","6">>,
       fits |-> FALSE],
      [type |-> "uint16", raw |-> <<"0">>,
       fits |-> TRUE],
      [type |-> "uint16", raw |-> <<"-","1">>,
       fits |-> FALSE],
      [type |-> "int32", raw |-> <<"2","1","4","7","4","8","3","6","4","7">>,
       fits |-> TRUE],
      [type |-> "int32", raw |-> <<"2","1","4","7","4","8","3","6","4","8">>,
       fits |-> FALSE],
      [type |-> "int32", raw |-> <<"-","2","1","4","7","4","8","3","6","4","8">>,
       fits |-> TRUE],
      [type |-> "int32", raw |-> <<"-","2","1","4","7","4","8","3","6","4","9">>,
       fits |-> FALSE],
      [type |-> "int32", raw |-> <<"0">>,
       fits |-> TRUE],
      [type |-> "uint32", raw |-> <<"4","2","9","4","9","6","7","2","9","5">>,
       fits |-> TRUE],
      [type |-> "uint32", raw |-> <<"4","2","9","4","9","6","7","2","9","6">>,
       fits |-> FALSE],
      [type |-> "uint32", raw |-> <<"0">>,
       fits |-> TRUE],
      [type |-> "uint32", raw |-> <<"-","1">>,
       fits |-> FALSE],
      [type |-> "int64", raw |-> <<"9","2","2","3","3","7","2","0","3","6","8","5","4","7","7","5","8","0","7">>,
       fits |-> TRUE],
      [type |-> "int64", raw |-> <<"9","2","2","3","3","7","2","0","3","6","8","5","4","7","7","5","8","0","8">>,
       fits |-> FALSE],
      [type |-> "int64", raw |-> <<"-","9","2","2","3","3","7","2","0","3","6","8","5","4","7","7","5","8","0","8">>,
       fits |-> TRUE],
      [type |-> "int64", raw |-> <<"-","9","2","2","3","3","7","2","0","3","6","8","5","4","7","7","5","8","0","9">>,
       fits |-> FALSE],
      [type |-> "int64", raw |-> <<"0">>,
       fits |-> TRUE],
      [type |-> "uint64", raw |-> <<"1","8","4","4","6","7","4","4","0","7","3","7","0","9","5","5","1","6","1","5">>,
       fits |-> TRUE],
      [type |-> "uint64", raw |-> <<"1","8","4","4","6","7","4","4","0","7","3","7","0","9","5","5","1","6","1","6">>,
       fits |-> FALSE],
      [type |-> "uint64", raw |-> <<"0">>,
       fits |-> TRUE],
      [type |-> "uint64", raw |-> <<"-","1">>,
       fits |-> FALSE] }

WidthCalls == UNION { CallsOf(Single(c.type, NoTag), {c.raw}) : c \in WidthCases }

CoerceCalls ==
    BoundCalls \cup LengthCalls \cup MalformedCalls \cup KindCalls \cup OtherKindCalls
        \cup WidthCalls

NextCoerce ==
    \/ pc = "idle" /\ \E call \in CoerceCalls : Pick(call[1], call[2])
    \/ decodeBody
    \/ \E t \in valueReaders : pickField(t)
    \/ return

SpecCoerce == Init /\ [][NextCoerce]_vars

\* Pick returned, for a destination of the single field V.
Returns == Called /\ pc \in {"done", "failed"} /\ Len(dst.T.Fields) = 1

\* The field, its tags and the raw value of such a call.
V == FieldAt(0)
Raw == req.Values[<<"header", <<"v">>>>]

\* Pick stored exactly x into the field and returned nil.
Accepted(x) == pc = "done" /\ val[1] = x

\* Pick returned a PickError with this cause and the field kept its value.
Rejected(what) ==
    /\ pc = "failed"
    /\ result.Cause = Err(what)
    /\ val[1] = val1[1]

\* ------------------------------------------------------------------------
\* C12, as the specification states it. minimum and maximum are inclusive
\* bounds for every integer and float kind: a raw value that parses to v is
\* accepted, and stored exactly, iff minimum <= v <= maximum for every
\* declared bound; below minimum the cause is "minimum exceeded", above
\* maximum "maximum exceeded"; also for large integer bounds.
C12_BoundsInclusive ==
    (/\ Returns
     /\ V.Type \in BoundedTypes
     /\ \E t \in {"minimum", "maximum"} : TagFound(V.Tag, t)
     /\ \A t \in {"minimum", "maximum"} : TagFound(V.Tag, t) => IsSignedDecimal(V.Tag[t])
     /\ IsSignedDecimal(Raw)) =>
      LET v == SignedDecimalValue(Raw)
          below == TagFound(V.Tag, "minimum") /\ v < SignedDecimalValue(V.Tag["minimum"])
          above == TagFound(V.Tag, "maximum") /\ v > SignedDecimalValue(V.Tag["maximum"])
      IN  CASE below -> Rejected("minimum exceeded")
            [] ~below /\ above -> Rejected("maximum exceeded")
            [] OTHER -> Accepted(v)

\* ------------------------------------------------------------------------
\* C13, as the specification states it. A string field with a non-empty
\* raw value is assigned the value verbatim iff minLength <= n <= maxLength
\* for each declared bound, n being the number of characters of the value,
\* not its number of bytes; otherwise Pick fails with "minLength exceeded"
\* or "maxLength exceeded".
C13_LengthInCharacters ==
    (/\ Returns
     /\ V.Type = "string"
     /\ \E t \in {"minLength", "maxLength"} : TagFound(V.Tag, t)
     /\ \A t \in {"minLength", "maxLength"} : TagFound(V.Tag, t) => IsSignedDecimal(V.Tag[t])
     /\ Raw # <<>>) =>
      LET n == Len(Raw)
          short == TagFound(V.Tag, "minLength") /\ n < SignedDecimalValue(V.Tag["minLength"])
          long  == TagFound(V.Tag, "maxLength") /\ n > SignedDecimalValue(V.Tag["maxLength"])
      IN  CASE short -> Rejected("minLength exceeded")
            [] ~short /\ long -> Rejected("maxLength exceeded")
            [] OTHER -> Accepted(Raw)

\* The field without its validation tags.
Untagged(f) == [f EXCEPT !.Tag = "header" :> <<"v">>]

\* The raw value parses for the field's kind: the field's case of the
\* switch accepts it when no validation tag is declared.
Parses == coerce(Untagged(V), 0, Raw).out = "nil"

\* A tag of the field with a literal that is no number.
Malformed(t) == TagFound(V.Tag, t) /\ ~IsSignedDecimal(V.Tag[t])

\* The kinds whose case calls minMax, and the kind whose case calls
\* minLength and maxLength.
MinMaxKinds ==
    {"int", "int8", "int16", "int32", "int64", "uint8", "uint16", "uint32", "uint64",
     "float32", "float64"}

\* Pick returned a PickError for the field and did not assign it.
FailedUnassigned ==
    /\ pc = "failed"
    /\ result.Dest = <<dst.T.Name, ".">> \o V.Name
    /\ val[1] = val1[1]

\* ------------------------------------------------------------------------
\* C14, as the specification states it. For a field set by the built-in
\* coercion with a raw value that parses, a minimum or maximum tag that is
\* no floating-point literal, or a minLength or maxLength tag that is no
\* integer literal, makes Pick return a PickError for the field, which is
\* not assigned: whatever the kind of the field.
C14_MalformedBoundFails ==
    (/\ Returns
     /\ Raw # <<>>
     /\ Parses
     /\ \E t \in {"minimum", "maximum", "minLength", "maxLength"} : Malformed(t)) =>
      FailedUnassigned

\* C14, amended. A malformed minimum or maximum fails the bind of a field
\* of an integer or float kind, and a malformed minLength or maxLength that
\* of a string field: Pick returns a PickError for the field, which is not
\* assigned. On every other kind the tag is not evaluated, and a value that
\* parses is assigned.
C14_MalformedBoundFailsWhereEvaluated ==
    (/\ Returns
     /\ Raw # <<>>
     /\ Parses
     /\ \E t \in {"minimum", "maximum", "minLength", "maxLength"} : Malformed(t)) =>
      IF \/ Kind(V.Type) \in MinMaxKinds /\ (Malformed("minimum") \/ Malformed("maximum"))
         \/ Kind(V.Type) = "string" /\ (Malformed("minLength") \/ Malformed("maxLength"))
      THEN FailedUnassigned
      ELSE pc = "done" /\ val[1] = coerce(Untagged(V), 0, Raw).value

\* C14's case: an int field with a well-formed minimum, which the value
\* meets, and a maximum that is no number failed on the maximum's literal.
C14_Witness ==
    /\ Returns
    /\ pc = "failed"
    /\ V.Type = "int"
    /\ TagFound(V.Tag, "minimum")
    /\ ~Malformed("minimum")
    /\ Malformed("maximum")
    /\ result.Cause = Err("ParseFloat: invalid syntax")
    /\ val[1] = val1[1]

\* The field declares no validation tag.
Unvalidated == DOMAIN V.Tag = {"header"}

\* The error of the default case of set's switch for the field's kind.
Unsupported == [error |-> "set %v: unsupported", kind |-> Kind(V.Type)]

\* ------------------------------------------------------------------------
\* C15, as the specification states it. Every primitive kind of the
\* coercion table has a parse-and-assign rule: for a field of kind bool,
\* int, int8..int64, uint, uint8..uint64, float32, float64, complex64,
\* complex128 or string and a valid raw value, Pick never returns the
\* "unsupported" error.
C15_EveryPrimitiveKindCoerced ==
    (/\ Returns
     /\ V.Type \in PrimitiveTypes
     /\ Unvalidated
     /\ Raw = Decimal(1)) =>
      /\ ~(pc = "failed" /\ result.Cause = Unsupported)
      /\ pc = "done"

\* ------------------------------------------------------------------------
\* C16. A source-tagged exported field with a non-empty value, no companion
\* method and no registered override, of a kind outside the coercion table
\* (struct, slice, map, pointer) makes Pick return, not panic, a PickError
\* whose Cause names the kind as unsupported; the field keeps its value.
C16_OtherKindsUnsupported ==
    (/\ Called
     /\ pc \notin {"body", "fields"}
     /\ Len(dst.T.Fields) = 1
     /\ Kind(V.Type) \in {"struct", "slice", "map", "ptr"}
     /\ Raw # <<>>) =>
      /\ pc = "failed"
      /\ panicked = Nil
      /\ result.Cause = Unsupported
      /\ result.Dest = <<dst.T.Name, ".">> \o V.Name
      /\ result.Source = <<"header", "[", "v", "]">>
      /\ val[1] = val1[1]

\* C16's case: Pick returned the unsupported error for a slice field.
C16_Witness ==
    /\ Returns
    /\ pc = "failed"
    /\ V.Type = "[]string"
    /\ result.Cause = [error |-> "set %v: unsupported", kind |-> "slice"]

\* The case of WidthCases a call is, and the number its raw value denotes.
WidthCase == CHOOSE c \in WidthCases : c.type = V.Type /\ c.raw = Raw

Denoted == Number(Raw[1] = "-", IF Raw[1] = "-" THEN Tail(Raw) ELSE Raw)

\* ------------------------------------------------------------------------
\* C17. Integer coercion is width-exact: for a field of a signed or
\* unsigned integer kind of 8, 16, 32 or 64 bits without bounds, a decimal
\* raw value is accepted iff it is in the range of the kind; an accepted
\* value is stored as it is, and a value one outside the range yields an
\* error and no store.
C17_WidthExact ==
    (/\ Returns
     /\ Unvalidated
     /\ \E c \in WidthCases : c.type = V.Type /\ c.raw = Raw) =>
      IF WidthCase.fits
      THEN /\ pc = "done"
           /\ val[1] = Denoted
      ELSE /\ pc = "failed"
           /\ result.Cause \in {Err("ParseInt: value out of range"),
                                Err("ParseUint: value out of range"),
                                Err("ParseUint: invalid syntax")}
           /\ val[1] = val1[1]

\* C17's case: an int64 field holds 9223372036854775807.
C17_Witness ==
    /\ Returns
    /\ V.Type = "int64"
    /\ pc = "done"
    /\ Raw = <<"9","2","2","3","3","7","2","0","3","6","8","5","4","7","7","5","8","0","7">>
    /\ val[1] = [neg |-> FALSE, digits |-> Raw]

\* The PickError of a field failure names the field that failed, the source
\* tag its value was read with and that tag's key, and has a cause.
Populated ==
    FieldFailed =>
      /\ result.Dest = <<dst.T.Name, ".">> \o FieldAt(i).Name
      /\ log # <<>>
      /\ \E k \in Reads :
           /\ log[k].i = i
           /\ \A m \in Reads : m <= k
           /\ log[k].name \in SourceTagNames
           /\ log[k].arg = TagGet(FieldAt(i).Tag, log[k].name)
           /\ log[k].arg # <<>>
           /\ result.Source = <<log[k].name, "[">> \o log[k].arg \o <<"]">>
           /\ result.Cause # Nil
           /\ Error(result) =
                <<"pick ", dst.T.Name, ".">> \o FieldAt(i).Name
                    \o <<" from ", log[k].name, "[">> \o log[k].arg \o <<"]", ": ", result.Cause>>

C19_ExactContentType ==
    (/\ Called
     /\ dst.kind # "value"
     /\ pc # "body"
     /\ req.Method \notin {"GET", "HEAD", "DELETE"}) =>
      IF \E key \in DOMAIN registry : key = req.ContentType
      THEN /\ log[2].name = registry[req.ContentType]
           /\ req.Body # "valid" => BodyFailed
      ELSE /\ log[2].name = "noop"
           /\ ~BodyFailed
           /\ val1 = val0

\* C19's case: a POST with content type application/json; charset=utf-8
\* and a broken body went through while only application/json was
\* registered, and a field the json decoder would fill kept its value.
C19_Witness ==
    /\ Called
    /\ pc = "done"
    /\ req.Method = "POST"
    /\ req.ContentType = "application/json; charset=utf-8"
    /\ req.Body = "broken"
    /\ DOMAIN registry = {"application/json"}
    /\ \E j \in FieldIndexes : TagFound(FieldAt(j).Tag, "json")

\* ------------------------------------------------------------------------
\* C20, as the specification states it. Pick rejects a destination that is
\* no pointer to a struct by panicking as its first step: no decoder is
\* resolved or invoked, no field is read, and Pick does not return; for a
\* struct passed by value and for a pointer to something that is no struct.
C20_RejectedFirst ==
    (Called /\ dst.kind # "ptr") =>
      /\ log = <<>>
      /\ pc \notin {"done", "failed"}
      /\ result = Nil

\* The positions of the log with an entry of this operation.
Entries(op) == {k \in DOMAIN log : log[k].op = op}

\* A string field that set hands to the switch on its kind: no companion
\* method, exported, no setfn registered for string.
PlainString(f) ==
    /\ f.Type = "string"
    /\ IsExported(f.Name)
    /\ CompanionName(f.Name) \notin DOMAIN dst.T.Methods

\* ------------------------------------------------------------------------
\* C21. Phase ordering: for a method other than GET, HEAD and DELETE the
\* decoder factory and Decode are each invoked exactly once per call, and
\* before the first value reader. So a field the body decoder filled and
\* that carries a source tag holds the source value after its set stored
\* it, and keeps the decoded value when the source value is empty.
C21_BodyBeforeFields ==
    (/\ Called
     /\ dst.kind = "ptr"
     /\ pc # "body"
     /\ req.Method \notin {"GET", "HEAD", "DELETE"}) =>
      /\ Entries("newDecoder") = {1}
      /\ Entries("Decode") = {2}
      /\ \A k \in Reads : k > 2
      /\ \A k \in Reads :
           LET j == log[k].i
           IN  (/\ log[2].name # "noop"
                /\ TagFound(FieldAt(j).Tag, "json")
                /\ req.Body = "valid"
                /\ PlainString(FieldAt(j))) =>
                 /\ val1[j + 1] = BodyValue("string")
                 /\ RawRead(k) = <<>> => val[j + 1] = BodyValue("string")
                 /\ (RawRead(k) # <<>> /\ ~(FieldFailed /\ i = j)) =>
                        val[j + 1] = RawRead(k)

\* C21's case: a POST whose body set Alias to John, and whose header alias
\* then set it to red.
C21_Witness ==
    /\ Called
    /\ pc = "done"
    /\ req.Method = "POST"
    /\ \E k \in Reads :
         /\ FieldAt(log[k].i).Name = <<"A","l","i","a","s">>
         /\ val1[log[k].i + 1] = <<"J","o","h","n">>
         /\ val[log[k].i + 1] = <<"r","e","d">>

\* The panic of set's check of a private field without a companion method.
PrivateFieldPanic(f) ==
    Panic(<<"private field ", f.Name, ", missing ", CompanionName(f.Name)>>)

\* ------------------------------------------------------------------------
\* C22, as the specification states it. Once Pick has accepted a pointer to
\* a struct, it halts by panic only in the check of a restricted field
\* without a setter; every other failure, any outcome of a companion Set
\* method included, is returned as a PickError; and no call both panics and
\* returns an error.
C22_OnlyPrivateFieldPanics ==
    (Called /\ dst.kind = "ptr") =>
      /\ pc = "fatal" =>
           /\ ~IsExported(FieldAt(i).Name)
           /\ CompanionName(FieldAt(i).Name) \notin DOMAIN dst.T.Methods
           /\ panicked = PrivateFieldPanic(FieldAt(i))
           /\ result = Nil
      /\ pc = "failed" => panicked = Nil

\* The value the body phase left in the field with index j: what a
\* successful Decode of a registered decoder stored, else the prior value.
AfterBody(j) ==
    IF /\ Entries("Decode") # {}
       /\ log[2].name # "noop"
       /\ req.Body = "valid"
       /\ IsExported(FieldAt(j).Name)
       /\ TagFound(FieldAt(j).Tag, "json")
    THEN BodyValue(Kind(FieldAt(j).Type))
    ELSE val0[j + 1]

\* ------------------------------------------------------------------------
\* C23. No rollback on failure: when Pick fails at field i, every field
\* before i that a setter or the built-in coercion assigned in this call
\* holds the assigned value, every other field holds what the body phase
\* left in it, the values the body decoder wrote included; no prior value
\* is restored.
C23_NoRollback ==
    (Called /\ FieldFailed) =>
      \A j \in FieldIndexes :
        /\ val1[j + 1] = AfterBody(j)
        /\ \A k \in Reads :
             (log[k].i = j /\ j < i /\ set(dst.T, setters, j, RawRead(k)).written) =>
                 val[j + 1] = set(dst.T, setters, j, RawRead(k)).value
        /\ (j > i \/ (j < i /\ \A k \in Reads :
                log[k].i = j => ~set(dst.T, setters, j, RawRead(k)).written)) =>
             val[j + 1] = val1[j + 1]

\* C23's case: Pick failed at the second field, Alias, after the coercion
\* set Flag and the body set Alias; both hold the new values.
C23_Witness ==
    /\ Called
    /\ FieldFailed
    /\ i = 1
    /\ FieldAt(0).Name = <<"F","l","a","g">>
    /\ FieldAt(1).Name = <<"A","l","i","a","s">>
    /\ Entries("coerce") # {}
    /\ val0 = <<FALSE, <<"o","l","d">>>>
    /\ val = <<TRUE, <<"J","o","h","n">>>>

\* ------------------------------------------------------------------------
\* C24. A failure of the built-in coercion leaves the field unchanged: when
\* the raw value does not parse, when a bound literal is malformed and when
\* a minimum, maximum, minLength or maxLength check is violated, the field
\* holds after Pick the value it held when the field phase reached it.
C24_FailedCoercionAssignsNothing ==
    (/\ Returns
     /\ pc = "failed"
     /\ Entries("coerce") # {}) =>
      /\ Raw # <<>>
      /\ result.Dest = <<dst.T.Name, ".">> \o V.Name
      /\ val1 = val0
      /\ val = val1

\* C24's case: an int field with a minimum, read with a value that parses
\* to a number below it and differs from the value the field holds.
C24_Witness ==
    /\ Returns
    /\ pc = "failed"
    /\ V.Type = "int"
    /\ Parses
    /\ result.Cause = Err("minimum exceeded")
    /\ coerce(Untagged(V), 0, Raw).value # val0[1]
    /\ val[1] = val0[1]

\* ------------------------------------------------------------------------
\* Validation tags on fields that a companion method or a registered setfn
\* sets, and on kinds whose case of the switch does not evaluate them.

\* V <type> `header:"v" <tags>` with a companion method SetV of kind m
WithMethod(type, tags, m) == Entry(<<"V">>, type, ("header" :> <<"v">>) @@ tags, m)

\* The tags of these fields: bounds the raw values violate, and literals
\* that are no number.
ViolatedTags ==
    { "maxLength" :> <<"1">>, "minLength" :> <<"9">>, "minLength" :> NoNumber,
      "maximum" :> <<"0">>, "minimum" :> <<"9">>, "minimum" :> NoNumber }

\* Raw values the setters accept and one they reject.
SetterRaws == { <<"r","e","d">>, <<"y","e","l","l","o","w">>, <<"a","b">> }

TagCalls ==
    UNION { CallsOf(WithMethod("string", tags, m), SetterRaws) :
              tags \in ViolatedTags, m \in {"error", "void"} }
      \cup UNION { CallsOf(Single("xr.Color", tags), SetterRaws) : tags \in ViolatedTags }
      \cup UNION { CallsOf(Single(type, tags), {<<"1">>, <<"a","b">>}) :
                     type \in {"bool", "complex64", "string", "int", "float64"},
                     tags \in ViolatedTags }

NextTags ==
    \/ \E typ \in SetterTypes : UseSetter(typ, "SetColorField")
    \/ pc = "idle" /\ \E call \in TagCalls : Pick(call[1], call[2])
    \/ decodeBody
    \/ \E t \in valueReaders : pickField(t)
    \/ return

SpecTags == Init /\ [][NextTags]_vars

\* The validation tags the case of the field's kind evaluates.
EvaluatedTags ==
    IF Kind(V.Type) \in MinMaxKinds THEN {"minimum", "maximum"}
    ELSE IF Kind(V.Type) = "string" THEN {"minLength", "maxLength"}
    ELSE {}

\* ------------------------------------------------------------------------
\* C25. Validation tags are evaluated on the built-in coercion path only. A
\* field set by its companion method or by the setfn registered for its
\* type fails only if the setter returns an error, whatever its minimum,
\* maximum, minLength and maxLength tags declare, malformed literals
\* included; and minimum and maximum are not applied to bool, complex and
\* string fields, nor minLength and maxLength to fields that are no string.
C25_ValidationOnCoercionOnly ==
    (Returns /\ Raw # <<>>) =>
      /\ HasCompanion(0) =>
           /\ Entries("coerce") = {}
           /\ IF MethodAccepts(CompanionKind(0), Raw)
              THEN pc = "done" /\ val[1] = Raw
              ELSE pc = "failed" /\ result.Cause = Err("rejected by Set method")
      /\ (~HasCompanion(0) /\ V.Type \in DOMAIN setters) =>
           /\ Entries("coerce") = {}
           /\ IF ParseColor(Raw).err = Nil
              THEN pc = "done" /\ val[1] = ParseColor(Raw).value
              ELSE pc = "failed" /\ result.Cause = ParseColor(Raw).err
      /\ (/\ ~HasCompanion(0)
          /\ V.Type \notin DOMAIN setters
          /\ \A t \in EvaluatedTags : ~TagFound(V.Tag, t)
          /\ Parses) =>
           /\ pc = "done"
           /\ val[1] = coerce(Untagged(V), 0, Raw).value

\* C25's case: a string field with maxLength 1 and a companion method was
\* set to a value of three characters.
C25_Witness ==
    /\ Returns
    /\ pc = "done"
    /\ HasCompanion(0)
    /\ CompanionKind(0) = "error"
    /\ TagFound(V.Tag, "maxLength")
    /\ V.Tag["maxLength"] = <<"1">>
    /\ Raw = <<"r","e","d">>
    /\ val[1] = Raw

\* ------------------------------------------------------------------------
\* Fields with several source tags.

\* Dual string `header:"dual" query:"dual"`
Dual ==
    Entry(<<"D","u","a","l">>, "string",
          "header" :> <<"dual">> @@ "query" :> <<"dual">>, "none")

SourceCalls == Calls({Dual, Alias, Flag, Model}, SetterShapes)

NextSources ==
    \/ pc = "idle" /\ \E call \in SourceCalls : Pick(call[1], call[2])
    \/ decodeBody
    \/ \E t \in valueReaders : pickField(t)
    \/ return

SpecSources == Init /\ [][NextSources]_vars

\* The source tags field j declares, and whether no field declares two.
Declared(j) == {t \in SourceTagNames : TagGet(FieldAt(j).Tag, t) # <<>>}

SingleSourced == \A j \in FieldIndexes : Cardinality(Declared(j)) <= 1

\* The ways the ranges over the reader table can come out for the fields
\* of one call: for each field the tag its range meets first.
Preferences == [FieldIndexes -> SourceTagNames]

\* The tag field j is read with when its range meets tag first[j] first.
Chosen(j, first) ==
    IF first[j] \in Declared(j) THEN first[j] ELSE CHOOSE t \in Declared(j) : TRUE

RECURSIVE FieldsFrom(_, _, _)
\* What the field loop of Pick ends with from field j on, the fields
\* holding vals, for given outcomes of the ranges over the reader table.
FieldsFrom(j, vals, first) ==
    IF j = Len(dst.T.Fields)
    THEN [pc |-> "done", val |-> vals, result |-> Nil, panicked |-> Nil]
    ELSE IF Declared(j) = {} THEN FieldsFrom(j + 1, vals, first)
    ELSE LET t    == Chosen(j, first)
             key  == FieldAt(j).Tag[t]
             o    == set(dst.T, setters, j, req.Values[<<t, key>>])
             next == IF o.written THEN [vals EXCEPT ![j + 1] = o.value] ELSE vals
         IN  CASE o.out = "nil"   -> FieldsFrom(j + 1, next, first)
               [] o.out = "error" ->
                    [pc |-> "failed", val |-> next, panicked |-> Nil,
                     result |-> PickError(<<dst.T.Name, ".">> \o FieldAt(j).Name,
                                          <<t, "[">> \o key \o <<"]">>, o.cause)]
               [] o.out = "panic" ->
                    [pc |-> "fatal", val |-> next, result |-> Nil, panicked |-> o.cause]

\* What the call ended with.
Ended == [pc |-> pc, val |-> val, result |-> result, panicked |-> panicked]

\* ------------------------------------------------------------------------
\* C26. Source resolution. For each field with a source tag that Pick
\* reaches, exactly one value reader is invoked, also when the field
\* declares several source tags, and the Source of an error is the locator
\* of the reader used. What a call ends with is what the field loop yields
\* for some outcome of the ranges over the reader table; when no field
\* declares two source tags it is the same for every outcome, so that the
\* destination and the result are a function of the destination, the
\* request and the registries.
C26_SourceResolution ==
    (Called /\ dst.kind = "ptr" /\ pc \in {"done", "failed", "fatal"}) =>
      /\ \A j \in FieldIndexes :
           Cardinality({k \in Reads : log[k].i = j}) =
               IF Declared(j) # {} /\ j <= i THEN 1 ELSE 0
      /\ \A k \in Reads : log[k].name \in Declared(log[k].i)
      /\ FieldFailed =>
           \E k \in Reads :
               /\ log[k].i = i
               /\ result.Source = <<log[k].name, "[">> \o log[k].arg \o <<"]">>
      /\ \E first \in Preferences : Ended = FieldsFrom(0, val0, first)
      /\ SingleSourced => \A first \in Preferences : Ended = FieldsFrom(0, val0, first)

\* C26's case: Dual declares header and query, the request holds different
\* values for them, and this call read the query.
C26_Witness ==
    /\ Called
    /\ pc = "done"
    /\ \E k \in Reads :
         /\ FieldAt(log[k].i).Name = <<"D","u","a","l">>
         /\ log[k].name = "query"
         /\ req.Values[<<"query", <<"dual">>>>] = <<"r","e","d">>
         /\ req.Values[<<"header", <<"dual">>>>] = <<"1">>
         /\ val[log[k].i + 1] = <<"r","e","d">>

\* ------------------------------------------------------------------------
\* Pick runs to its end: it is one synchronous call without a suspension
\* point, so a step of it that can be taken is taken. Each of its steps
\* changes pc or i.

PickSteps ==
    \/ decodeBody
    \/ fieldsOfNonStruct
    \/ skipField
    \/ \E t \in valueReaders : pickField(t)
    \/ return

SpecPickRuns == Spec /\ WF_<<pc, i>>(PickSteps)

\* The call is over: Pick returned nil, returned a PickError or panicked.
Over == pc \in {"done", "failed", "fatal"}

\* The log entries of a store into field j.
Stores(j) == {k \in DOMAIN log : log[k].i = j /\ log[k].op \in {"method", "setfn", "coerce"}}

\* A step of the field loop visits field i and no other, and goes on to
\* field i + 1 or ends the call; nothing follows the end of a call.
ForwardStep ==
    /\ ~Over
    /\ (pc = "fields" /\ pc' = "fields") => i' = i + 1
    /\ (pc = "fields" /\ pc' # "fields") => (i' = i /\ pc' \in {"done", "failed", "fatal"})
    /\ pc = "fields" =>
         /\ \A k \in DOMAIN log' : k > Len(log) => log'[k].i = i
         /\ \A k \in DOMAIN val : k # i + 1 => val'[k] = val[k]
         /\ pc' = "done" => i = Len(dst.T.Fields)

\* ------------------------------------------------------------------------
\* C27. Pick makes a single forward pass and always terminates: the fields
\* are visited in strictly increasing declaration order, each at most once
\* and each assigned at most once, and every call ends in exactly one of
\* nil returned after all fields were visited, a PickError returned, or a
\* panic.
C27_SingleForwardPass ==
    /\ [][ForwardStep]_vars
    /\ [](Called =>
            /\ \A j, k \in Reads : j < k => log[j].i < log[k].i
            /\ dst.kind = "ptr" => \A j \in FieldIndexes : Cardinality(Stores(j)) <= 1
            /\ pc = "done" => (result = Nil /\ panicked = Nil /\ i = Len(dst.T.Fields))
            /\ pc = "failed" => (result # Nil /\ panicked = Nil)
            /\ pc = "fatal" => (result = Nil /\ panicked # Nil))
    /\ (Called ~> Over)

\* C27's case: a call that visited both fields of a struct, assigned each
\* once and returned nil.
C27_Witness ==
    /\ Called
    /\ pc = "done"
    /\ Len(dst.T.Fields) = 2
    /\ i = 2
    /\ Cardinality(Stores(0)) = 1
    /\ Cardinality(Stores(1)) = 1
    /\ val[1] # val0[1]
    /\ val[2] # val0[2]

\* ------------------------------------------------------------------------
\* The package-level Pick.

\* An interface value: its dynamic type and the value of that type. The nil
\* interface has neither.
Interface(type, value) == [type |-> type, value |-> value]

NilInterface == Interface("nil", Nil)

\* The package-level Pick with the result type error: the return statement
\* converts the *PickError of PickerDefault.Pick to error, which yields an
\* interface value with the dynamic type *PickError, for a nil pointer too.
PickAsError(res) == Interface("*xr.PickError", res)

\* The package-level Pick with the result type *PickError returns the
\* pointer as it is.
PickAsPointer(res) == res

\* ------------------------------------------------------------------------
\* C28, as the specification states it. On full success the caller
\* observes no error: when Picker.Pick completed the body and field phases
\* without failure, the value returned compares equal to nil, for
\* Picker.Pick and for the package-level Pick, also for the one whose result
\* type is the error interface.
C28_SuccessIsNil ==
    (Called /\ pc = "done") =>
      /\ result = Nil
      /\ PickAsPointer(result) = Nil
      /\ PickAsError(result) = NilInterface

\* ------------------------------------------------------------------------
\* Concurrent calls on one Picker. Two goroutines call Pick, each with a
\* destination and a request of its own, and a third configures the
\* picker. registry and setters are the maps of the one Picker, log is the
\* one history of what the goroutines did, and every other variable holds
\* one value per calling goroutine.

Procs == {1, 2}
Config == 0

Upd(f, p, v) == [f EXCEPT ![p] = v]

\* Log entries as those of goroutine p.
By(p, entries) ==
    [k \in DOMAIN entries |->
       [p |-> p, op |-> entries[k].op, i |-> entries[k].i,
        name |-> entries[k].name, arg |-> entries[k].arg]]

\* Pointers to the struct of these fields with the requests of the shapes.
CallsWith(entries, shapes) ==
    { <<[kind |-> "ptr", T |-> StructType(entries)], r>> :
        r \in Requests(StructType(entries), shapes) }

\* The calls of these goroutines: a body that is decoded, a content type
\* that Register adds, a field whose type UseSetter adds.
ConcurrentCalls ==
    { c \in CallsWith(<<Alias>>, { <<"POST", "application/json", "valid">>,
                                   <<"POST", "application/json; charset=utf-8", "broken">> })
              \cup CallsWith(<<Hue, Model>>, SetterShapes)
              \cup CallsWith(<<Model, Flag>>, SetterShapes) :
        \A k \in DOMAIN c[2].Values : c[2].Values[k] # <<>> }

InitConcurrent ==
    /\ registry = ("application/json" :> "json")
    /\ setters = NoTag
    /\ pc = [p \in Procs \cup {Config} |-> "idle"]
    /\ dst = [p \in Procs |-> Nil]
    /\ req = [p \in Procs |-> Nil]
    /\ val = [p \in Procs |-> <<>>]
    /\ val0 = [p \in Procs |-> <<>>]
    /\ val1 = [p \in Procs |-> <<>>]
    /\ i = [p \in Procs |-> 0]
    /\ result = [p \in Procs |-> Nil]
    /\ panicked = [p \in Procs |-> Nil]
    /\ log = <<>>

\* The registry once p.registry[contentType] = fn is through, and the
\* setters once p.setters[typ] = fn is.
Registered(contentType, fn) ==
    [c \in DOMAIN registry \cup {contentType} |-> IF c = contentType THEN fn ELSE registry[c]]

SetterUsed(typ, fn) ==
    [t \in DOMAIN setters \cup {typ} |-> IF t = typ THEN fn ELSE setters[t]]

\* Register and UseSetter assign to a map without a lock: the assignment
\* begins, and is through some time later.
beginRegister ==
    /\ pc[Config] = "idle"
    /\ pc' = Upd(pc, Config, "Register")
    /\ UNCHANGED <<registry, setters, dst, req, val, val0, val1, i, result, panicked, log>>

endRegister ==
    /\ pc[Config] = "Register"
    /\ \E ct \in ContentTypes : registry' = Registered(ct, "json")
    /\ pc' = Upd(pc, Config, "done")
    /\ UNCHANGED <<setters, dst, req, val, val0, val1, i, result, panicked, log>>

beginUseSetter ==
    /\ pc[Config] = "idle"
    /\ pc' = Upd(pc, Config, "UseSetter")
    /\ UNCHANGED <<registry, setters, dst, req, val, val0, val1, i, result, panicked, log>>

endUseSetter ==
    /\ pc[Config] = "UseSetter"
    /\ \E typ \in SetterTypes : setters' = SetterUsed(typ, "SetColorField")
    /\ pc' = Upd(pc, Config, "done")
    /\ UNCHANGED <<registry, dst, req, val, val0, val1, i, result, panicked, log>>

\* What a read of a map can see while another goroutine assigns to it: the
\* map before the assignment or after it. The runtime may also detect the
\* race and end the program.
RegistryViews ==
    IF pc[Config] = "Register"
    THEN {registry} \cup {Registered(ct, "json") : ct \in ContentTypes}
    ELSE {registry}

SettersViews ==
    IF pc[Config] = "UseSetter"
    THEN {setters} \cup {SetterUsed(typ, "SetColorField") : typ \in SetterTypes}
    ELSE {setters}

ConcurrentMapAccess == Panic(<<"fatal error: concurrent map read and map write">>)

\* Whether set, for this field and raw value, reaches p.setters[...].
LooksUpSetter(T, idx, v) ==
    /\ ~skips(v)
    /\ dispatch(setMethodName(T.Fields[idx + 1]) \in DOMAIN T.Methods,
                ~IsExported(T.Fields[idx + 1].Name), FALSE) = "coerce"

\* The runtime ends the program in goroutine p's read of a map.
crash(p) ==
    /\ \/ /\ pc[p] = "body"
          /\ req[p].Method \notin NoBodyMethods
          /\ pc[Config] = "Register"
       \/ /\ pc[p] = "fields"
          /\ i[p] < Len(dst[p].T.Fields)
          /\ pc[Config] = "UseSetter"
          /\ \E t \in SourceTags(dst[p].T.Fields[i[p] + 1].Tag) :
               LooksUpSetter(dst[p].T, i[p],
                             req[p].Values[<<t, dst[p].T.Fields[i[p] + 1].Tag[t]>>])
    /\ pc' = Upd(pc, p, "fatal")
    /\ panicked' = Upd(panicked, p, ConcurrentMapAccess)
    /\ UNCHANGED <<registry, setters, dst, req, val, val0, val1, i, result, log>>

\* Pick of goroutine p, lines 49-52.
PickOf(p, d, r) ==
    /\ pc[p] = "idle"
    /\ dst' = Upd(dst, p, d)
    /\ req' = Upd(req, p, r)
    /\ val' = Upd(val, p, [k \in DOMAIN d.T.Fields |-> PriorValue(Kind(d.T.Fields[k].Type))])
    /\ val0' = Upd(val0, p, val'[p])
    /\ pc' = Upd(pc, p, "body")
    /\ UNCHANGED <<registry, setters, val1, i, result, panicked, log>>

\* A Pick that registers the noop decoder for a content type it does not
\* find.
decodeBodyCaching(p) ==
    /\ pc[p] = "body"
    /\ registry' = IF req[p].Method \in NoBodyMethods THEN registry
                   ELSE IF req[p].ContentType \in DOMAIN registry THEN registry
                   ELSE Registered(req[p].ContentType, "noop")
    /\ pc' = Upd(pc, p, "fields")
    /\ val1' = Upd(val1, p, val[p])
    /\ UNCHANGED <<setters, dst, req, val, val0, i, result, panicked, log>>

\* Lines 54-68 in goroutine p.
decodeBodyOf(p) ==
    /\ pc[p] = "body"
    /\ IF req[p].Method \in NoBodyMethods
       THEN /\ pc' = Upd(pc, p, "fields")
            /\ UNCHANGED <<val, result, log>>
       ELSE \E seen \in RegistryViews :
              LET ct  == req[p].ContentType
                  dec == newDecoder(seen, ct)
                  err == DecodeError(dec, dst[p], req[p].Body)
              IN  /\ log' = log \o By(p,
                               <<[op |-> "newDecoder", i |-> -1, name |-> ct, arg |-> <<>>],
                                 [op |-> "Decode", i |-> -1, name |-> dec, arg |-> <<>>]>>)
                  /\ pc' = Upd(pc, p, afterDecode(err))
                  /\ result' = IF afterDecode(err) = "failed"
                               THEN Upd(result, p, PickError(BodyDest(dst[p]), <<"body">>, err))
                               ELSE result
                  /\ val' = IF err = Nil
                            THEN Upd(val, p, [k \in DOMAIN val[p] |->
                                    IF Decoded(dec, dst[p].T, k)
                                    THEN BodyValue(Kind(dst[p].T.Fields[k].Type))
                                    ELSE val[p][k]])
                            ELSE val
    /\ val1' = Upd(val1, p, val'[p])
    /\ UNCHANGED <<registry, setters, dst, req, val0, i, panicked>>

\* Lines 73-85 in goroutine p.
pickFieldOf(p, t) ==
    /\ pc[p] = "fields"
    /\ i[p] < Len(dst[p].T.Fields)
    /\ t \in SourceTags(dst[p].T.Fields[i[p] + 1].Tag)
    /\ \E seen \in SettersViews :
         LET key == dst[p].T.Fields[i[p] + 1].Tag[t]
             v   == req[p].Values[<<t, key>>]
             o   == set(dst[p].T, seen, i[p], v)
         IN  /\ seen # setters => LooksUpSetter(dst[p].T, i[p], v)
             /\ log' = log \o By(p,
                          <<[op |-> "read", i |-> i[p], name |-> t, arg |-> key]>> \o o.calls)
             /\ val' = IF o.written THEN Upd(val, p, [val[p] EXCEPT ![i[p] + 1] = o.value])
                       ELSE val
             /\ pc' = Upd(pc, p, afterSet(o.out))
             /\ result' = IF afterSet(o.out) = "failed"
                          THEN Upd(result, p, PickError(FieldDest(dst[p].T, i[p]),
                                                        SourceOf(t, key), o.cause))
                          ELSE result
             /\ panicked' = IF afterSet(o.out) = "fatal" THEN Upd(panicked, p, o.cause)
                            ELSE panicked
             /\ i' = IF afterSet(o.out) = "fields" THEN Upd(i, p, i[p] + 1) ELSE i
    /\ UNCHANGED <<registry, setters, dst, req, val0, val1>>

\* Line 87 in goroutine p.
returnOf(p) ==
    /\ pc[p] = "fields"
    /\ i[p] = Len(dst[p].T.Fields)
    /\ pc' = Upd(pc, p, "done")
    /\ UNCHANGED <<registry, setters, dst, req, val, val0, val1, i, result, panicked, log>>

NextConcurrent ==
    \/ beginRegister
    \/ endRegister
    \/ beginUseSetter
    \/ endUseSetter
    \/ \E p \in Procs : pc[p] = "idle" /\ \E call \in ConcurrentCalls : PickOf(p, call[1], call[2])
    \/ \E p \in Procs : decodeBodyOf(p)
    \/ \E p \in Procs : \E t \in valueReaders : pickFieldOf(p, t)
    \/ \E p \in Procs : returnOf(p)
    \/ \E p \in Procs : crash(p)

SpecConcurrent == InitConcurrent /\ [][NextConcurrent]_vars

RECURSIVE SequentialFields(_, _, _, _, _)
\* What the field loop of a Pick that runs alone ends with from field j on:
\* d and r are its destination and request, vals the values of the
\* fields. No field of these calls declares two source tags.
SequentialFields(d, r, registered, j, vals) ==
    IF j = Len(d.T.Fields)
    THEN [pc |-> "done", val |-> vals, result |-> Nil, panicked |-> Nil]
    ELSE LET t    == CHOOSE tag \in SourceTags(d.T.Fields[j + 1].Tag) : TRUE
             key  == d.T.Fields[j + 1].Tag[t]
             o    == set(d.T, registered, j, r.Values[<<t, key>>])
             next == IF o.written THEN [vals EXCEPT ![j + 1] = o.value] ELSE vals
         IN  CASE o.out = "nil"   -> SequentialFields(d, r, registered, j + 1, next)
               [] o.out = "error" ->
                    [pc |-> "failed", val |-> next, panicked |-> Nil,
                     result |-> PickError(FieldDest(d.T, j), SourceOf(t, key), o.cause)]
               [] o.out = "panic" ->
                    [pc |-> "fatal", val |-> next, result |-> Nil, panicked |-> o.cause]

\* What a Pick that runs alone ends with, for a picker with these maps.
SequentialPick(d, r, reg, registered) ==
    LET prior   == [k \in DOMAIN d.T.Fields |-> PriorValue(Kind(d.T.Fields[k].Type))]
        dec     == newDecoder(reg, r.ContentType)
        err     == DecodeError(dec, d, r.Body)
        decoded == [k \in DOMAIN prior |->
                      IF Decoded(dec, d.T, k) THEN BodyValue(Kind(d.T.Fields[k].Type))
                      ELSE prior[k]]
    IN  IF r.Method \in NoBodyMethods THEN SequentialFields(d, r, registered, 0, prior)
        ELSE IF err # Nil
        THEN [pc |-> "failed", val |-> prior, panicked |-> Nil,
              result |-> PickError(BodyDest(d), <<"body">>, err)]
        ELSE SequentialFields(d, r, registered, 0, decoded)

\* What the call of goroutine p ended with.
EndedOf(p) == [pc |-> pc[p], val |-> val[p], result |-> result[p], panicked |-> panicked[p]]

\* ------------------------------------------------------------------------
\* C29. Pick never writes to the registry of decoders or to the setters, so
\* with no Register and no UseSetter under way, every interleaving of the
\* steps of two Pick calls on different destinations and requests ends, for
\* each call, with the destination and result the call has when it runs
\* alone; the runtime ends the program for a concurrent map access only
\* while Register or UseSetter is assigning.
C29_CallsDoNotInterfere ==
    /\ [][pc'[Config] = pc[Config] => (registry' = registry /\ setters' = setters)]_vars
    /\ [](\A p \in Procs :
            /\ (pc[Config] = "idle" /\ pc[p] \in {"done", "failed", "fatal"}) =>
                 EndedOf(p) = SequentialPick(dst[p], req[p], registry, setters)
            /\ (pc[p] = "fatal" /\ panicked[p] = ConcurrentMapAccess) => pc[Config] # "idle")

\* C29's case: two calls on different destinations and requests are over,
\* a step of the first lies between two steps of the second, and no
\* Register or UseSetter has begun.
C29_Witness ==
    /\ pc[Config] = "idle"
    /\ pc[1] = "done"
    /\ pc[2] = "failed"
    /\ dst[1] # dst[2]
    /\ req[1] # req[2]
    /\ \E j, k, n \in DOMAIN log :
         j < k /\ k < n /\ log[j].p = 2 /\ log[k].p = 1 /\ log[n].p = 2

\* ------------------------------------------------------------------------
\* The Pick of version 0.8.0, which validates the fields after decoding:
\* its set has no validation in the cases of its switch, and its loop
\* validates every field, with a source tag or without.

ValidationTags == {"minimum", "maximum", "minLength", "maxLength"}

\* The struct type as the set of 0.8.0 sees it: its switch looks at no
\* validation tag.
WithoutValidation(T) ==
    [T EXCEPT !.Fields =
        [k \in DOMAIN T.Fields |->
           [T.Fields[k] EXCEPT !.Tag =
              [t \in DOMAIN T.Fields[k].Tag \ ValidationTags |-> T.Fields[k].Tag[t]]]]]

\* The kinds minimumField and maximumField read the stored value of; for
\* every other kind value stays 0.
FieldNumberKinds ==
    {"uint8", "uint16", "uint32", "uint64", "int", "int8", "int16", "int32", "int64",
     "float32", "float64"}

\* float64 of the value the field holds; exact for the values of the model.
FieldNumber(field, stored) == IF Kind(field.Type) \in FieldNumberKinds THEN stored ELSE 0

\* minimumField(obj, i, val): the bound against the value the field holds.
minimumField(field, stored) ==
    IF ~TagFound(field.Tag, "minimum") THEN Nil
    ELSE LET minVal == ParseFloat32(field.Tag["minimum"])
         IN  IF minVal.err # Nil THEN minVal.err
             ELSE IF FieldNumber(field, stored) < minVal.value
             THEN [error |-> "%v, minimum %v exceeded",
                   value |-> FieldNumber(field, stored), minVal |-> minVal.value]
             ELSE Nil

maximumField(field, stored) ==
    IF ~TagFound(field.Tag, "maximum") THEN Nil
    ELSE LET maxVal == ParseFloat32(field.Tag["maximum"])
         IN  IF maxVal.err # Nil THEN maxVal.err
             ELSE IF FieldNumber(field, stored) > maxVal.value THEN Err("maximum exceeded")
             ELSE Nil

\* The validation of one field in the loop: minLength and maxLength of the
\* raw value readValue returned, then minimumField and maximumField of the
\* value the field holds; the first error.
validate(field, v, stored) ==
    IF minLength(field.Tag, v) # Nil THEN minLength(field.Tag, v)
    ELSE IF maxLength(field.Tag, v) # Nil THEN maxLength(field.Tag, v)
    ELSE IF minimumField(field, stored) # Nil THEN minimumField(field, stored)
    ELSE maximumField(field, stored)

\* What readValue can return with: a tag the field declares, or no tag
\* (errTagNotFound, with the value "" and the source "").
TagNotFound == "errTagNotFound"

ReadWith(tag) == IF SourceTags(tag) = {} THEN {TagNotFound} ELSE SourceTags(tag)

\* One pass of the loop of 0.8.0: read, set if a tag was found, validate.
pickAndValidate(t) ==
    /\ pc = "fields"
    /\ dst.kind = "ptr"
    /\ i < Len(dst.T.Fields)
    /\ t \in ReadWith(dst.T.Fields[i + 1].Tag)
    /\ LET field  == dst.T.Fields[i + 1]
           found  == t # TagNotFound
           key    == IF found THEN field.Tag[t] ELSE <<>>
           v      == IF found THEN req.Values[<<t, key>>] ELSE <<>>
           source == IF found THEN SourceOf(t, key) ELSE <<>>
       IN  \E o \in { IF found THEN set(WithoutValidation(dst.T), setters, i, v)
                      ELSE Returned(Nil, FALSE, 0, <<>>) } :
           \E stored \in { IF o.written THEN o.value ELSE val[i + 1] } :
           \E err \in { IF o.out = "error" THEN o.cause
                        ELSE IF o.out = "panic" THEN Nil
                        ELSE validate(field, v, stored) } :
           \E then \in { IF o.out = "panic" THEN "fatal"
                         ELSE IF err # Nil THEN "failed" ELSE "fields" } :
             /\ log' = log \o (IF found THEN <<[op |-> "read", i |-> i, name |-> t, arg |-> key]>>
                               ELSE <<>>) \o o.calls
                           \o (IF o.out = "nil"
                               THEN <<[op |-> "validate", i |-> i, name |-> t, arg |-> v]>>
                               ELSE <<>>)
             /\ val' = IF o.written THEN [val EXCEPT ![i + 1] = o.value] ELSE val
             /\ pc' = then
             /\ result' = IF then = "failed"
                          THEN PickError(FieldDest(dst.T, i), source, err)
                          ELSE result
             /\ panicked' = IF then = "fatal" THEN o.cause ELSE panicked
             /\ i' = IF then = "fields" THEN i + 1 ELSE i
    /\ UNCHANGED <<registry, setters, dst, req, val0, val1>>

\* Password string `json:"password" minLength:"<m>"`
Password(m) ==
    Entry(<<"P","a","s","s","w","o","r","d">>, "string",
          "json" :> <<"password">> @@ "minLength" :> m, "none")

\* Age int `json:"age" minimum:"<b>"`
Age(b) == Entry(<<"A","g","e">>, "int", "json" :> <<"age">> @@ "minimum" :> b, "none")

\* A valid body holds a password of four bytes and the age 42: bounds those
\* values meet and bounds they miss.
Lengths == {Decimal(Len(BodyValue("string"))), Decimal(Len(BodyValue("string")) + 1)}
Ages == {Decimal(BodyValue("int")), Decimal(BodyValue("int") + 1)}

BodyShapes ==
    { <<"POST", "application/json", "valid">>,
      <<"POST", "application/json", "broken">>,
      <<"GET", "application/json", "broken">> }

ValidatedCalls ==
    UNION { CallsWith(<<Password(m), Age(b)>>, BodyShapes) : m \in Lengths, b \in Ages }
      \cup UNION { CallsWith(<<Alias, Password(m)>>, BodyShapes) : m \in Lengths }
      \cup UNION { CallsWith(<<Age(b), Flag>>, BodyShapes) : b \in Ages }

NextValidated ==
    \/ pc = "idle" /\ \E call \in ValidatedCalls : Pick(call[1], call[2])
    \/ decodeBody
    \/ \E t \in valueReaders \cup {TagNotFound} : pickAndValidate(t)
    \/ return

SpecValidated == Init /\ [][NextValidated]_vars

\* The loop gave its verdict on field j, and the verdict was no error.
Validated(j) == pc = "done" \/ (pc \in {"fields", "failed"} /\ i >= j /\ (i = j => pc = "failed"))

Passed(j) == ~(pc = "failed" /\ i = j)

\* The body decoder stored into the fields.
BodyDecoded ==
    /\ Entries("Decode") # {}
    /\ log[2].name # "noop"
    /\ ~BodyFailed

\* ------------------------------------------------------------------------
\* C30, as the changelog of 0.8.0 has it. In the Pick that validates fields after
\* decoding, validation tags cover the fields that only the body decoder
\* fills: a string field with a json tag, minLength and no source tag passes
\* iff the value the decoder stored has at least that length, and an int
\* field with minimum and no source tag passes iff its decoded value is at
\* least the bound.
C30_ValidatesDecodedFields ==
    (Called /\ dst.kind = "ptr" /\ pc # "body" /\ BodyDecoded) =>
      \A j \in FieldIndexes :
        (Declared(j) = {} /\ Validated(j)) =>
          /\ (Kind(FieldAt(j).Type) = "string" /\ TagFound(FieldAt(j).Tag, "minLength")) =>
               (Passed(j) <=> ByteLen(val[j + 1]) >= DecimalValue(FieldAt(j).Tag["minLength"]))
          /\ (Kind(FieldAt(j).Type) = "int" /\ TagFound(FieldAt(j).Tag, "minimum")) =>
               (Passed(j) <=> val[j + 1] >= DecimalValue(FieldAt(j).Tag["minimum"]))

====
